---- MODULE Spec2Model ----
(***************************************************************************)
(* Silence detection (sequential and chunk-parallel) and the silence-      *)
(* guided segmentation planner of the RunPod silence processor.            *)
(*                                                                         *)
(* Numbers.  Times are integers in ms.  A decoded sample is an integer     *)
(* level v standing for the normalised float v / AmpDen.  A loudness in dB *)
(* is 10*log10 of a mean square; log10 is strictly increasing, so every    *)
(* comparison of two dB values is modelled as the comparison of the two    *)
(* mean squares, kept as exact fractions <<num, den>> in level^2 units.    *)
(* The 16 dB margin is the power ratio 10^1.6, taken as 3981/100; it is    *)
(* irrational, so no window of integer levels lies exactly on an automatic *)
(* threshold.  Python's round() is round-half-to-even.                     *)
(***************************************************************************)
EXTENDS Integers, Sequences, FiniteSets, TLC

VARIABLES
  sr, ch, sw, x_mono,         \* the wave file: rate, channels, sample width,
                              \* and its decoded mono signal
  min_silence_len_ms, silence_thresh_db, seek_step_ms,
                              \* the parameters of the detection call
  cpu,                        \* cpu_count()
  pc,                         \* position of the call under way
  thresh,                     \* the detector's local silence_thresh_db
  chunks, chunk_results,      \* work handed to the pool, lists returned
  worker_failed,              \* chunks whose worker took its except branch
  pool_raised,                \* pool.map raised
  result,                     \* what the detector returned
  duration_minutes,           \* audio_info["duration_minutes"], in 1/100 min
  silence_segments,           \* the silence list given to the planner
  split_plan,                 \* what the planner returned
  volume,                     \* the folder on the volume: what the job
                              \* found there and the files written so far
  call,                       \* the job: entry point, input, environment
  exception,                  \* the exception being propagated, if any
  piece_pos,                  \* position of the extraction loop in pieces
  split_results,              \* the records of the pieces saved so far
  split_result,               \* what the extraction returned
  job_result,                 \* what process_special_folder returned
  handler_result,             \* what handler returned
  file_chunks, file_exists,   \* the file to upload: its length in chunks,
                              \* and whether it is there
  file_pos,                   \* chunks read from the file so far
  upload_id,                  \* response['UploadId']
  parts, part_number,         \* manual_multipart_upload's locals
  attempt,                    \* position of the retry loop
  s3_calls,                   \* the requests made to the S3 client, in order
  upload_result,              \* what manual_multipart_upload returned
  run_data,                   \* per R2 job: the audio file named by its
                              \* folder's run.json
  job_pc,                     \* per R2 job: position in
                              \* process_special_folder
  temp_dir,                   \* /tmp/audio_processing: file name -> the job
                              \* whose data the file holds
  bucket,                     \* the R2 bucket: the sidecar objects stored
  meta_info, silence_analysis,
                              \* per R2 job: the job whose audio was analysed
  r2_result                   \* per R2 job: what process_special_folder
                              \* returned

fileVars == <<sr, ch, sw, x_mono>>
paramVars == <<min_silence_len_ms, silence_thresh_db, seek_step_ms, cpu>>
poolVars == <<thresh, chunks, chunk_results, worker_failed, pool_raised>>
planVars == <<duration_minutes, silence_segments, split_plan, volume>>
splitVars == <<piece_pos, split_results, split_result>>
jobVars == <<call, exception, splitVars, job_result, handler_result>>

uploadVars == <<file_chunks, file_exists, file_pos, upload_id, parts,
                part_number, attempt, s3_calls, upload_result>>
r2Vars == <<run_data, job_pc, temp_dir, bucket, meta_info, silence_analysis,
            r2_result>>

vars == <<fileVars, paramVars, pc, poolVars, result, planVars, jobVars,
          uploadVars, r2Vars>>

(* Python's None, for the threshold parameter that was not given *)
None == <<>>

(* the exception _detect_silence_segments_fast raises to its caller *)
Error == [error |-> "Desteklenmeyen sample width"]

(* the call has not returned yet *)
NoResult == [returned |-> FALSE]

(* no exception is being propagated, no error was found *)
NoException == "None"

(* a function called on its own, outside any job *)
NoJob ==
  /\ call = [entry |-> "none"]
  /\ exception = NoException
  /\ piece_pos = 0 /\ split_results = <<>> /\ split_result = NoResult
  /\ job_result = NoResult
  /\ handler_result = NoResult

(* no upload is under way *)
NoUpload ==
  /\ file_chunks = 0 /\ file_exists = TRUE /\ file_pos = 0
  /\ upload_id = NoException
  /\ parts = <<>> /\ part_number = 1 /\ attempt = 0
  /\ s3_calls = <<>>
  /\ upload_result = NoResult

(* no R2 job is under way *)
NoR2 ==
  /\ run_data = <<>> /\ job_pc = <<>> /\ temp_dir = <<>> /\ bucket = {}
  /\ meta_info = <<>> /\ silence_analysis = <<>> /\ r2_result = <<>>

----------------------------------------------------------------------------
(* Bounds of the model *)

MaxLen == 28
BlockLen == 7
MaxCpu == 9

(* Normalised amplitude of level v is v / AmpDen *)
AmpDen == 4
Levels == {0, 2}

Max(a, b) == IF a > b THEN a ELSE b
Min(a, b) == IF a < b THEN a ELSE b

(* ceil(a / b) for b > 0, a of either sign *)
CeilDiv(a, b) == -((-a) \div b)

(* Python round(n / d) for n >= 0, d > 0: ties go to the even integer *)
RoundHalfEven(n, d) ==
  LET q == n \div d
      r == n % d
  IN  IF 2 * r < d THEN q
      ELSE IF 2 * r > d THEN q + 1
      ELSE IF q % 2 = 0 THEN q ELSE q + 1

RECURSIVE SumSqRange(_, _, _)
SumSqRange(x, lo, hi) ==
  IF lo > hi THEN 0
  ELSE IF lo = hi THEN x[lo] * x[lo]
  ELSE LET mid == (lo + hi) \div 2
       IN  SumSqRange(x, lo, mid) + SumSqRange(x, mid + 1, hi)

SumSq(x) == SumSqRange(x, 1, Len(x))

(* a caller-given threshold of t dB (t a non-positive multiple of 10) *)
Db(t) == <<AmpDen * AmpDen, 10 ^ ((0 - t) \div 10)>>

(* audio_dbfs(x) is -inf *)
AudioDbIsNegInf(x) == Len(x) = 0 \/ SumSq(x) = 0

RECURSIVE Gcd(_, _)
Gcd(a, b) == IF b = 0 THEN a ELSE Gcd(b, a % b)

(* the fraction n / d in lowest terms *)
Fraction(n, d) == <<n \div Gcd(n, d), d \div Gcd(n, d)>>

(* a threshold that has no fallback for a signal of rms 0 *)
WorkingThresholdNoFallback(x, thr) ==
  IF thr # None THEN thr
  ELSE Fraction(SumSq(x) * 100, Max(1, Len(x) * 3981))

(* the working threshold: the caller's, or audio_dbfs - 16.0, or -40.0 *)
WorkingThreshold(x, thr) ==
  IF thr # None THEN thr
  ELSE IF AudioDbIsNegInf(x) THEN Db(-40)
  ELSE Fraction(SumSq(x) * 100, Len(x) * 3981)

(* a window at the threshold taken as silent *)
IsSilentOrEqual(ss, win, thr) == ss * thr[2] <= thr[1] * win

(* seg_db < silence_thresh_db for a window of win samples with sum of
   squares ss; a window of rms 0 has seg_db = -inf, below any threshold *)
IsSilent(ss, win, thr) == ss * thr[2] < thr[1] * win

Hop(rate, step) == Max(1, RoundHalfEven(rate * step, 1000))

NHops(len, hop) == CeilDiv(len - hop, hop) + 1

(* np.pad(x, (0, pad_len)): x followed by pad_len zeros, total in all *)
Pad(x, total) == x \o [i \in 1..(total - Len(x)) |-> 0]

(* the silent[] list of the windows of x_pad: one entry per hop *)
Classify(x_pad, n_hops, hop, thr) ==
  [i \in 1..n_hops |->
     IsSilent(SumSqRange(x_pad, (i - 1) * hop + 1, (i - 1) * hop + hop),
              hop, thr)]

(* the inner while loop: the first window at or after i that is not silent,
   or n_hops; i is 0-based *)
RECURSIVE RunEnd(_, _, _)
RunEnd(silent, i, n_hops) ==
  IF i < n_hops /\ silent[i + 1] THEN RunEnd(silent, i + 1, n_hops) ELSE i

(* the values s the outer while loop takes: the silent windows that are
   not preceded by a silent window *)
RunStarts(silent, n_hops) ==
  {s \in 0..(n_hops - 1) : silent[s + 1] /\ (s = 0 \/ ~silent[s])}

(* the runs in the order the loop meets them, those long enough kept *)
RECURSIVE AppendRuns(_, _, _, _, _, _)
AppendRuns(silent, starts, n_hops, step, min_len, segments) ==
  IF starts = {} THEN segments
  ELSE LET s == CHOOSE a \in starts : \A b \in starts : a <= b
           e == RunEnd(silent, s, n_hops)
       IN  AppendRuns(silent, starts \ {s}, n_hops, step, min_len,
                      IF (e - s) * step >= min_len
                      THEN Append(segments, <<s * step, e * step>>)
                      ELSE segments)

(* the while loop that coalesces runs of silent windows *)
Coalesce(silent, n_hops, step, min_len) ==
  AppendRuns(silent, RunStarts(silent, n_hops), n_hops, step, min_len, <<>>)

clamp(v, lo, hi) == Max(lo, Min(hi, v))

(* a duration taken in seconds instead of ms *)
AudioMsInSeconds(len, rate) == RoundHalfEven(len, rate)

AudioMs(len, rate) == RoundHalfEven(len * 1000, rate)

(* spans left as the window boundaries give them *)
ClampSpansNoClamp(segments, audio_ms) ==
  [k \in 1..Len(segments) |-> <<segments[k][1], segments[k][2]>>]

ClampSpans(segments, audio_ms) ==
  [k \in 1..Len(segments) |->
     <<clamp(segments[k][1], 0, audio_ms), clamp(segments[k][2], 0, audio_ms)>>]

detect_silence_chunked(x, rate, min_len, thr, step) ==
  IF Len(x) = 0 THEN <<>>
  ELSE LET hop == Hop(rate, step)
           n_hops == NHops(Len(x), hop)
           x_pad == Pad(x, n_hops * hop)
           silent == Classify(x_pad, n_hops, hop, thr)
           segments == Coalesce(silent, n_hops, step, min_len)
       IN  ClampSpans(segments, AudioMs(Len(x), rate))

RECURSIVE SumDurations(_, _)
SumDurations(spans, k) ==
  IF k = 0 THEN 0 ELSE SumDurations(spans, k - 1) + (spans[k][2] - spans[k][1])

(* a result dictionary whose index counts from 0 *)
FormatResultIndexFromZero(spans, total_ms) ==
  [silences |-> [k \in 1..Len(spans) |->
                   [index |-> k - 1,
                    start_ms |-> spans[k][1],
                    end_ms |-> spans[k][2],
                    duration_ms |-> spans[k][2] - spans[k][1]]],
   audio_duration_ms |-> total_ms,
   total_silence_ms |-> SumDurations(spans, Len(spans)),
   speech_ms |-> total_ms - SumDurations(spans, Len(spans)),
   segment_count |-> Len(spans)]

(* the result dictionary built from the spans *)
FormatResult(spans, total_ms) ==
  [silences |-> [k \in 1..Len(spans) |->
                   [index |-> k,
                    start_ms |-> spans[k][1],
                    end_ms |-> spans[k][2],
                    duration_ms |-> spans[k][2] - spans[k][1]]],
   audio_duration_ms |-> total_ms,
   total_silence_ms |-> SumDurations(spans, Len(spans)),
   speech_ms |-> total_ms - SumDurations(spans, Len(spans)),
   segment_count |-> Len(spans)]

(* a decoder that takes every width up to 4 bytes *)
SupportedWidthUpTo4(width) == width \in 1..4

SupportedWidth(width) == width \in {1, 2, 4}

(* _detect_silence_segments_fast: Error stands for the raised exception *)
DetectSilenceSegmentsFast(x, rate, width, min_len, thr, step) ==
  IF ~SupportedWidth(width) THEN Error
  ELSE FormatResult(
         detect_silence_chunked(x, rate, min_len, WorkingThreshold(x, thr), step),
         AudioMs(Len(x), rate))

----------------------------------------------------------------------------
(* The audio file and the parameters of one detection call *)

SampleRates == {2, 3, 5}
Channels == {1, 65535}
SampleWidths == {3, 4}
SeekSteps == {500}
MinSilenceLens == {500, 1000}
ThreshChoices == {None, Db(-10)}

(* block-wise constant signals of len samples *)
BlockSignals(len) ==
  {[i \in 1..len |-> p[((i - 1) \div BlockLen) + 1]] :
     p \in [1..CeilDiv(len, BlockLen) -> Levels]}

Signals == UNION {BlockSignals(len) : len \in 0..MaxLen}

(* os.path.getsize of a canonical PCM wave file: 44-byte header + frames *)
FileSizeBytes == 44 + Len(x_mono) * ch * sw

(* file_size_mb < 5.0 *)
SmallFile == FileSizeBytes < 5 * 1024 * 1024

num_processes == Min(cpu, 8)

(* the sequential detector on the file and parameters of the call *)
FastResult ==
  DetectSilenceSegmentsFast(x_mono, sr, sw, min_silence_len_ms,
                            silence_thresh_db, seek_step_ms)

----------------------------------------------------------------------------
(* _detect_silence_segments_multiprocessing *)

hops_per_process(n_hops, procs) == Max(n_hops \div procs, 10)

(* x_pad[start_sample:end_sample], 0-based half-open *)
Slice(x, start_sample, end_sample) ==
  [k \in 1..(end_sample - start_sample) |-> x[start_sample + k]]

ChunkData(x_pad, n_hops, hop, procs, i) ==
  LET hpp == hops_per_process(n_hops, procs)
      start_hop == i * hpp
      end_hop == IF i = procs - 1 THEN n_hops
                 ELSE Min((i + 1) * hpp, n_hops)
      start_sample == start_hop * hop
      end_sample == Min(end_hop * hop + hop, Len(x_pad))
  IN  [x_chunk |-> IF start_hop < n_hops
                   THEN Slice(x_pad, start_sample, end_sample) ELSE <<>>,
       start_hop_idx |-> start_hop,
       chunk_idx |-> i]

(* the chunks list: one entry for every i with start_hop < n_hops *)
BuildChunks(x, hop, procs) ==
  LET n_hops == NHops(Len(x), hop)
      x_pad == Pad(x, n_hops * hop)
      all == [k \in 1..procs |-> ChunkData(x_pad, n_hops, hop, procs, k - 1)]
  IN  SelectSeq(all, LAMBDA c : c.start_hop_idx < n_hops)

(* _process_audio_chunk, the try branch *)
ProcessAudioChunk(chunk, hop, thr) ==
  LET win == hop
      n == IF Len(chunk.x_chunk) >= win
           THEN CeilDiv(Len(chunk.x_chunk) - win, hop) + 1 ELSE 0
  IN  [silent |-> IF n <= 0 THEN <<>>
                  ELSE Classify(Pad(chunk.x_chunk, n * hop), n, hop, thr),
       start_hop_idx |-> chunk.start_hop_idx,
       chunk_idx |-> chunk.chunk_idx]

(* _process_audio_chunk, the except branch *)
FailedChunkResult(chunk) ==
  [silent |-> <<>>,
   start_hop_idx |-> chunk.start_hop_idx,
   chunk_idx |-> chunk.chunk_idx]

(* a reassembly that writes each worker's list one window too far *)
PlaceShifted(silent, cr) ==
  [h \in 1..Len(silent) |->
     IF h - 2 >= cr.start_hop_idx /\ h - 2 < cr.start_hop_idx + Len(cr.silent)
     THEN cr.silent[h - 1 - cr.start_hop_idx]
     ELSE silent[h]]

(* one chunk_result written into the silent list *)
Place(silent, cr) ==
  [h \in 1..Len(silent) |->
     IF h - 1 >= cr.start_hop_idx /\ h - 1 < cr.start_hop_idx + Len(cr.silent)
     THEN cr.silent[h - cr.start_hop_idx]
     ELSE silent[h]]

RECURSIVE Reassemble(_, _, _)
Reassemble(silent, results, k) ==
  IF k > Len(results) THEN silent
  ELSE Reassemble(Place(silent, results[k][1]), results, k + 1)

(* the result returned once every chunk result is in *)
ParallelResult ==
  LET hop == Hop(sr, seek_step_ms)
      n_hops == NHops(Len(x_mono), hop)
      silent == Reassemble([h \in 1..n_hops |-> FALSE], chunk_results, 1)
      segments == Coalesce(silent, n_hops, seek_step_ms, min_silence_len_ms)
      audio_ms == AudioMs(Len(x_mono), sr)
  IN  FormatResult(ClampSpans(segments, audio_ms), audio_ms)

(* cpu_count(): one CPU takes the sequential path, two and three CPUs give
   two and three chunks, and from three CPUs on hops_per_process stays at
   its minimum of 10 for the signals here, so the larger hosts are stood
   for by the largest, which is beyond the cap of 8 processes *)
CpuCounts == {1, 2, 3, MaxCpu}

Init ==
  /\ NoUpload /\ NoR2
  /\ NoJob
  /\ sr \in SampleRates
  /\ ch \in Channels
  /\ sw \in SampleWidths
  /\ x_mono \in Signals
  /\ min_silence_len_ms \in MinSilenceLens
  /\ silence_thresh_db \in ThreshChoices
  /\ seek_step_ms \in SeekSteps
  /\ cpu \in CpuCounts
  /\ pc = "call"
  /\ thresh = None
  /\ chunks = <<>>
  /\ chunk_results = <<>>
  /\ worker_failed = {}
  /\ pool_raised = FALSE
  /\ result = NoResult
  /\ duration_minutes = 0
  /\ silence_segments = <<>>
  /\ split_plan = NoResult
  /\ volume = {}

(* one process, a small file: the sequential detector is returned *)
CallSequential ==
  /\ pc = "call"
  /\ num_processes <= 1 \/ SmallFile
  /\ result' = FastResult
  /\ thresh' = IF SupportedWidth(sw)
               THEN WorkingThreshold(x_mono, silence_thresh_db) ELSE thresh
  /\ pc' = "done"
  /\ UNCHANGED <<uploadVars, r2Vars, jobVars, fileVars, paramVars, chunks, chunk_results, worker_failed, pool_raised, planVars>>

(* decoding raises: the outer handler falls back to the sequential detector *)
CallUnsupported ==
  /\ pc = "call"
  /\ ~(num_processes <= 1 \/ SmallFile)
  /\ ~SupportedWidth(sw)
  /\ result' = FastResult
  /\ pc' = "done"
  /\ UNCHANGED <<uploadVars, r2Vars, jobVars, fileVars, paramVars, thresh, chunks, chunk_results, worker_failed, pool_raised, planVars>>

(* the file is read, the threshold fixed, the chunks handed to the pool *)
CallParallel ==
  /\ pc = "call"
  /\ ~(num_processes <= 1 \/ SmallFile)
  /\ SupportedWidth(sw)
  /\ thresh' = WorkingThreshold(x_mono, silence_thresh_db)
  /\ IF Len(x_mono) = 0
     THEN /\ result' = FormatResult(<<>>, AudioMs(0, sr))
          /\ pc' = "done"
          /\ UNCHANGED <<uploadVars, r2Vars, jobVars, chunks, chunk_results>>
     ELSE /\ chunks' = BuildChunks(x_mono, Hop(sr, seek_step_ms), num_processes)
          /\ chunk_results' = [k \in 1..Len(chunks') |-> <<>>]
          /\ pc' = "pool"
          /\ UNCHANGED result
  /\ UNCHANGED <<uploadVars, r2Vars, jobVars, fileVars, paramVars, worker_failed, pool_raised, planVars>>

(* a worker classifies its chunk *)
WorkerDone(k) ==
  /\ pc = "pool"
  /\ chunk_results[k] = <<>>
  /\ chunk_results' = [chunk_results EXCEPT
                         ![k] = <<ProcessAudioChunk(chunks[k],
                                                    Hop(sr, seek_step_ms),
                                                    thresh)>>]
  /\ UNCHANGED <<uploadVars, r2Vars, jobVars, fileVars, paramVars, pc, thresh, chunks, worker_failed, pool_raised, result, planVars>>

(* a worker hits an exception and returns the empty list *)
WorkerFail(k) ==
  /\ pc = "pool"
  /\ chunk_results[k] = <<>>
  /\ chunk_results' = [chunk_results EXCEPT
                         ![k] = <<FailedChunkResult(chunks[k])>>]
  /\ worker_failed' = worker_failed \cup {k}
  /\ UNCHANGED <<uploadVars, r2Vars, jobVars, fileVars, paramVars, pc, thresh, chunks, pool_raised, result, planVars>>

(* a fallback that lets the pool's exception reach the caller *)
PoolMapRaiseReraises ==
  /\ pc = "pool"
  /\ pool_raised' = TRUE
  /\ chunk_results' = <<>>
  /\ result' = Error
  /\ pc' = "done"
  /\ UNCHANGED <<uploadVars, r2Vars, jobVars, fileVars, paramVars, thresh, chunks, worker_failed, planVars>>

(* pool.map raises: chunk_results is never assigned and the sequential
   detector runs with the working threshold *)
PoolMapRaise ==
  /\ pc = "pool"
  /\ pool_raised' = TRUE
  /\ chunk_results' = <<>>
  /\ result' = DetectSilenceSegmentsFast(x_mono, sr, sw, min_silence_len_ms,
                                         thresh, seek_step_ms)
  /\ pc' = "done"
  /\ UNCHANGED <<uploadVars, r2Vars, jobVars, fileVars, paramVars, thresh, chunks, worker_failed, planVars>>

(* pool.map returns: reassembly, coalescing, clamping, formatting *)
PoolMapReturn ==
  /\ pc = "pool"
  /\ \A k \in 1..Len(chunk_results) : chunk_results[k] # <<>>
  /\ result' = ParallelResult
  /\ pc' = "done"
  /\ UNCHANGED <<uploadVars, r2Vars, jobVars, fileVars, paramVars, thresh, chunks, chunk_results, worker_failed, pool_raised, planVars>>

Next ==
  \/ CallSequential
  \/ CallUnsupported
  \/ CallParallel
  \/ \E k \in 1..Len(chunks) : WorkerDone(k)
  \/ \E k \in 1..Len(chunks) : WorkerFail(k)
  \/ PoolMapRaise
  \/ PoolMapReturn

Spec == Init /\ [][Next]_vars

----------------------------------------------------------------------------
(* Properties of the detector *)

Returned == pc = "done"

(* the call went through the pool and pool.map returned *)
ViaPool == Returned /\ ~pool_raised /\ Len(chunk_results) >= 1

Silences(r) == r.silences

(* C1: when no worker fails, the chunk-parallel detector returns the same
   segment_count and, segment by segment, the same start_ms and end_ms as
   the sequential detector on the same file and parameters *)
C1_ParallelEqualsSequential ==
  (Returned /\ worker_failed = {} /\ FastResult # Error) =>
     /\ result.segment_count = FastResult.segment_count
     /\ \A k \in 1..Len(Silences(FastResult)) :
          /\ Silences(result)[k].start_ms = Silences(FastResult)[k].start_ms
          /\ Silences(result)[k].end_ms = Silences(FastResult)[k].end_ms

(* three workers returned, and a reported silence runs across the boundary
   between the first two chunks *)
C1_Witness ==
  /\ ViaPool /\ worker_failed = {}
  /\ Len(chunk_results) = 3
  /\ result.segment_count >= 2
  /\ \E k \in 1..Len(Silences(result)) :
       /\ Silences(result)[k].start_ms < chunks[2].start_hop_idx * seek_step_ms
       /\ Silences(result)[k].end_ms > chunks[2].start_hop_idx * seek_step_ms

(* C2: if a worker hits an exception the parallel attempt is abandoned and
   the silence list returned is the sequential detector's *)
C2_WorkerFailureFallsBack ==
  (Returned /\ worker_failed # {}) => result = FastResult

(* C3: whenever the parallel path raises, the result is the sequential
   detector's result for the same file and parameters, and an error reaches
   the caller only when the sequential detector itself fails *)
C3_RaiseFallsBackToSequential ==
  Returned =>
    /\ (pool_raised \/ ~SupportedWidth(sw)) => result = FastResult
    /\ result = Error => FastResult = Error

(* pool.map raised on a call without a caller threshold, after the working
   threshold had been derived from a signal that is not all zero, and the
   sequential result has a silence *)
C3_Witness ==
  /\ Returned /\ pool_raised
  /\ silence_thresh_db = None /\ thresh # Db(-40)
  /\ result # Error /\ result.segment_count >= 1

(* C4: every returned interval has 0 <= start_ms < end_ms <= audio_duration_ms *)
C4_IntervalsInsideAudio ==
  (Returned /\ result # Error) =>
    \A k \in 1..Len(Silences(result)) :
      /\ 0 <= Silences(result)[k].start_ms
      /\ Silences(result)[k].start_ms < Silences(result)[k].end_ms
      /\ Silences(result)[k].end_ms <= result.audio_duration_ms

(* C5: the returned intervals are ordered and non-overlapping, and their
   index fields are 1, 2, ..., k in that order *)
C5_OrderedDisjointIndexed ==
  (Returned /\ result # Error) =>
    /\ \A k \in 1..Len(Silences(result)) : Silences(result)[k].index = k
    /\ \A k \in 1..(Len(Silences(result)) - 1) :
         Silences(result)[k].end_ms <= Silences(result)[k + 1].start_ms

(* a result with two intervals, the last one cut by the end-of-signal clamp *)
C5_Witness ==
  /\ Returned /\ result # Error
  /\ result.segment_count >= 2
  /\ Silences(result)[result.segment_count].end_ms = result.audio_duration_ms
  /\ result.audio_duration_ms % seek_step_ms # 0

(* C6: no returned interval has duration_ms below min_silence_len_ms *)
C6_NoShortInterval ==
  (Returned /\ result # Error) =>
    \A k \in 1..Len(Silences(result)) :
      Silences(result)[k].duration_ms >= min_silence_len_ms

(* C14: a wave file whose sample width is not 1, 2 or 4 bytes makes the
   detector, sequential or parallel, fail with the unsupported-width error
   before a threshold or a window is computed; no silence list is returned *)
C14_UnsupportedWidthFails ==
  (Returned /\ sw \notin {1, 2, 4}) =>
    /\ result = Error
    /\ thresh = None
    /\ chunks = <<>> /\ chunk_results = <<>>

(* a 3-byte file large enough for the parallel path, on several cores *)
C14_Witness ==
  /\ Returned /\ sw = 3
  /\ ~SmallFile /\ num_processes > 1
  /\ result = Error

(* C16: without a caller threshold an empty or all-zero signal gets the
   working threshold -40 dB and any other signal 16 dB below its mean
   square; a caller's threshold is used unchanged *)
C16_WorkingThreshold ==
  (Returned /\ result # Error) =>
    /\ silence_thresh_db # None => thresh = silence_thresh_db
    /\ (silence_thresh_db = None /\ \A i \in 1..Len(x_mono) : x_mono[i] = 0)
         => thresh = Db(-40)
    /\ (silence_thresh_db = None /\ \E i \in 1..Len(x_mono) : x_mono[i] # 0)
         => thresh[1] * (Len(x_mono) * 3981) = thresh[2] * (SumSq(x_mono) * 100)

(* an all-zero signal of several samples, detected without a threshold *)
C16_Witness ==
  /\ Returned /\ result # Error
  /\ silence_thresh_db = None
  /\ Len(x_mono) >= 2 /\ \A i \in 1..Len(x_mono) : x_mono[i] = 0
  /\ result.segment_count = 1

RECURSIVE SumOfDurationMs(_, _)
SumOfDurationMs(silences, k) ==
  IF k = 0 THEN 0
  ELSE SumOfDurationMs(silences, k - 1) + silences[k].duration_ms

(* C19: total_silence_ms is the sum of the intervals' duration_ms, speech_ms
   is audio_duration_ms - total_silence_ms, and 0 <= total_silence_ms <=
   audio_duration_ms *)
C19_SilenceStatistics ==
  (Returned /\ result # Error) =>
    /\ result.total_silence_ms
         = SumOfDurationMs(Silences(result), Len(Silences(result)))
    /\ result.speech_ms = result.audio_duration_ms - result.total_silence_ms
    /\ 0 <= result.total_silence_ms
    /\ result.total_silence_ms <= result.audio_duration_ms

(* two intervals, the last cut by the clamp, and some speech left *)
C19_Witness ==
  /\ Returned /\ result # Error
  /\ result.segment_count >= 2
  /\ result.speech_ms > 0
  /\ Silences(result)[result.segment_count].duration_ms
       < NHops(Len(x_mono), Hop(sr, seek_step_ms)) * seek_step_ms
           - Silences(result)[result.segment_count].start_ms
  /\ Silences(result)[result.segment_count].duration_ms > 0

(* the window indexes worker k classified: its silent list laid out from
   start_hop_idx *)
WorkerWindows(k) ==
  LET cr == chunk_results[k][1]
  IN  {cr.start_hop_idx + j : j \in 0..(Len(cr.silent) - 1)}

(* C22: the window ranges classified by different workers are pairwise
   disjoint, no window is classified by two workers, and the workers' lists
   lie in range order in the reassembled list of n_hops windows *)
C22_WorkerRangesDisjoint ==
  ViaPool =>
    LET n_hops == NHops(Len(x_mono), Hop(sr, seek_step_ms))
        silent == Reassemble([h \in 1..n_hops |-> FALSE], chunk_results, 1)
    IN  /\ Len(silent) = n_hops
        /\ \A j, k \in 1..Len(chunk_results) :
             j < k =>
               /\ WorkerWindows(j) \cap WorkerWindows(k) = {}
               /\ \A a \in WorkerWindows(j), b \in WorkerWindows(k) : a < b
        /\ \A k \in 1..Len(chunk_results) :
             \A w \in WorkerWindows(k) :
               w < n_hops /\
               silent[w + 1]
                 = chunk_results[k][1].silent[w - chunk_results[k][1].start_hop_idx + 1]

----------------------------------------------------------------------------
(* _calculate_intelligent_split_plan and _make_piece_plan_silence7_strategy *)
(*                                                                          *)
(* total_duration_minutes is always a float with two decimals (round(d/60, *)
(* 2)); it is kept as the integer h of hundredths of a minute.             *)

(* The h in 0..2400 for which        the IEEE-754 double product            *)
(* (h / 100) * 60 * 1000 falls just below the integer h * 600, so that     *)
(* int() truncates it to h * 600 - 1; e.g. 0.03 * 60 * 1000 is             *)
(* 1799.9999999999998.  Computed with                                      *)
(*   [h for h in range(2401) if int((h/100)*60*1000) != h*600]             *)
FloatTruncated ==
  {3, 6, 9, 12, 18, 24, 36, 41, 48, 57, 71, 72, 82, 96, 97, 114, 117, 119,
   139, 142, 144, 164, 167, 169, 189, 192, 194, 203, 205, 207, 209, 217,
   228, 234, 238, 253, 259, 263, 278, 284, 288, 303, 309, 313, 328, 334,
   338, 353, 359, 363, 378, 384, 388, 406, 409, 410, 413, 414, 418, 429,
   431, 434, 443, 451, 456, 468, 476, 481, 493, 501, 506, 518, 526, 531,
   543, 551, 556, 568, 576, 581, 593, 601, 606, 618, 626, 631, 643, 651,
   656, 668, 676, 681, 693, 701, 706, 718, 726, 731, 743, 751, 756, 768,
   776, 781, 793, 801, 803, 811, 812, 818, 820, 826, 828, 836, 837, 843,
   845, 851, 853, 858, 861, 862, 868, 877, 886, 887, 902, 911, 912, 927,
   936, 937, 952, 961, 962, 977, 986, 987, 1002, 1011, 1012, 1027, 1036,
   1037, 1052, 1061, 1062, 1077, 1086, 1087, 1102, 1111, 1112, 1127, 1136,
   1137, 1152, 1161, 1162, 1177, 1186, 1187, 1202, 1211, 1212, 1227, 1236,
   1237, 1252, 1261, 1262, 1277, 1286, 1287, 1302, 1311, 1312, 1327, 1336,
   1337, 1352, 1361, 1362, 1377, 1386, 1387, 1402, 1411, 1412, 1427, 1436,
   1437, 1452, 1461, 1462, 1477, 1486, 1487, 1502, 1511, 1512, 1527, 1536,
   1537, 1552, 1561, 1562, 1577, 1586, 1587, 1602, 1606, 1611, 1615, 1622,
   1624, 1627, 1631, 1636, 1640, 1647, 1649, 1652, 1656, 1661, 1665, 1672,
   1674, 1677, 1681, 1686, 1690, 1697, 1699, 1702, 1706, 1711, 1716, 1722,
   1724, 1729, 1731, 1736, 1741, 1747, 1749, 1754, 1772, 1774, 1779, 1797,
   1799, 1804, 1822, 1824, 1829, 1847, 1849, 1854, 1872, 1874, 1879, 1897,
   1899, 1904, 1922, 1924, 1929, 1947, 1949, 1954, 1972, 1974, 1979, 1997,
   1999, 2004, 2022, 2024, 2029, 2047, 2049, 2054, 2072, 2074, 2079, 2097,
   2099, 2104, 2122, 2124, 2129, 2147, 2149, 2154, 2172, 2174, 2179, 2197,
   2199, 2204, 2222, 2224, 2229, 2247, 2249, 2254, 2272, 2274, 2279, 2297,
   2299, 2304, 2322, 2324, 2329, 2347, 2349, 2354, 2372, 2374, 2379, 2397,
   2399}

(* int(total_duration_minutes * 60 * 1000) *)
MinutesToMs(h) == IF h \in FloatTruncated THEN h * 600 - 1 ELSE h * 600

(* pieces of fifteen minutes instead of five *)
NumPiecesFifteen(h) ==
  IF h <= 2000 THEN 1 ELSE Max(2, RoundHalfEven(h, 1500))

(* num_pieces: 1 up to 20 minutes, else max(2, round(minutes / 5)) *)
NumPieces(h) ==
  IF h <= 2000 THEN 1 ELSE Max(2, RoundHalfEven(h, 500))

Abs(v) == IF v < 0 THEN 0 - v ELSE v

(* The targets (h, k) whose double (total_duration_minutes / num_pieces)
   * k * 60 lies one unit in the last place above, or below, the rational
   0.6 * h * k / n, among the durations of PlannerMinutes and of the long
   files; e.g. (20.1 / 4) * 3 * 60 is 904.5000000000001.  Computed with
     [(h, k, ((h/100)/n)*k*60) for k in range(1, n)]                       *)
TargetRoundedUp == {<<2001, 1>>, <<2001, 2>>, <<2001, 3>>, <<2010, 3>>}
TargetRoundedDown == {<<2004, 1>>, <<2004, 2>>, <<2004, 3>>, <<2300, 3>>}

TargetError(h, k) ==
  IF <<h, k>> \in TargetRoundedUp THEN 1
  ELSE IF <<h, k>> \in TargetRoundedDown THEN -1 ELSE 0

(* a distance measured to the targets counted from the end of the file *)
DistanceFromEnd(silence, h, n, k) ==
  LET d == (silence.start_ms + silence.end_ms) * n - 1200 * h * (n - k)
      e == TargetError(h, n - k)
  IN  IF d > 0 THEN 2 * d - e
      ELSE IF d < 0 THEN e - 2 * d ELSE Abs(e)

(* abs(silence_middle_seconds - target_seconds) for target k of n, times
   the common denominator 4000 * n; the error of the target, far below one
   unit of this scale, counts only between equal distances *)
Distance(silence, h, n, k) ==
  LET d == (silence.start_ms + silence.end_ms) * n - 1200 * h * k
      e == TargetError(h, k)
  IN  IF d > 0 THEN 2 * d - e
      ELSE IF d < 0 THEN e - 2 * d ELSE Abs(e)

(* the scan for the nearest silence: best is 0 for None, else the position
   of best_silence; a later silence wins only if strictly nearer *)
RECURSIVE BestSilence(_, _, _, _, _, _)
BestSilence(silences, h, n, k, j, best) ==
  IF j > Len(silences) THEN best
  ELSE IF best = 0 \/ Distance(silences[j], h, n, k)
                        < Distance(silences[best], h, n, k)
       THEN BestSilence(silences, h, n, k, j + 1, j)
       ELSE BestSilence(silences, h, n, k, j + 1, best)

(* a target without a silence becomes a split point of its own *)
SplitAtTarget(before, h, n, k) ==
  Append(before, <<(600 * h * k) \div n, (600 * h * k) \div n>>)

(* best_silence is None: the target is logged and left out *)
SkipTarget(before, h, n, k) == before

(* a selection that leaves out an interval the previous target selected *)
AppendSelectedOnce(before, best_silence) ==
  IF Len(before) > 0
     /\ before[Len(before)] = <<best_silence.start_ms, best_silence.end_ms>>
  THEN before
  ELSE Append(before, <<best_silence.start_ms, best_silence.end_ms>>)

(* selected_silences.append([best_silence['start_ms'],
   best_silence['end_ms']]) *)
AppendSelected(before, best_silence) ==
  Append(before, <<best_silence.start_ms, best_silence.end_ms>>)

(* selected_silences: one [start_ms, end_ms] per target that found one *)
RECURSIVE SelectSilences(_, _, _, _)
SelectSilences(silences, h, n, k) ==
  IF k = 0 THEN <<>>
  ELSE LET best == BestSilence(silences, h, n, k, 1, 0)
           before == SelectSilences(silences, h, n, k - 1)
       IN  IF best = 0 THEN SkipTarget(before, h, n, k)
           ELSE AppendSelected(before, silences[best])

Piece(piece_index, start_ms, end_ms, trim_leading_ms) ==
  [piece_index |-> piece_index,
   start_ms |-> start_ms,
   end_ms |-> end_ms,
   duration_ms |-> end_ms - start_ms,
   trim_leading_ms |-> trim_leading_ms]

(* a piece builder that trims by the current silence, not the previous one *)
MakePiecePlanTrimCurrent(silences_ms, total_ms) ==
  IF Len(silences_ms) = 0 THEN <<Piece(1, 0, total_ms, 0)>>
  ELSE LET m == Len(silences_ms)
       IN  [i \in 1..(m + 1) |->
              IF i = 1 THEN Piece(1, 0, silences_ms[1][2], 0)
              ELSE IF i <= m
                   THEN Piece(i, silences_ms[i - 1][1], silences_ms[i][2],
                              Max(0, silences_ms[i][2] - silences_ms[i][1]))
                   ELSE Piece(m + 1, silences_ms[m][1], total_ms,
                              Max(0, silences_ms[m][2] - silences_ms[m][1]))]

(* _make_piece_plan_silence7_strategy *)
MakePiecePlan(silences_ms, total_ms) ==
  IF Len(silences_ms) = 0 THEN <<Piece(1, 0, total_ms, 0)>>
  ELSE LET m == Len(silences_ms)
       IN  [i \in 1..(m + 1) |->
              IF i = 1 THEN Piece(1, 0, silences_ms[1][2], 0)
              ELSE IF i <= m
                   THEN Piece(i, silences_ms[i - 1][1], silences_ms[i][2],
                              Max(0, silences_ms[i - 1][2]
                                       - silences_ms[i - 1][1]))
                   ELSE Piece(m + 1, silences_ms[m][1], total_ms,
                              Max(0, silences_ms[m][2] - silences_ms[m][1]))]

(* the plan returned by _calculate_intelligent_split_plan *)
CalculateSplitPlan(h, silences) ==
  LET num_pieces == NumPieces(h)
  IN  IF num_pieces = 1
      THEN [split_needed |-> FALSE,
            total_duration_minutes |-> h,
            recommended_pieces |-> 1,
            pieces |-> <<Piece(1, 0, MinutesToMs(h), 0)>>,
            split_points |-> <<>>]
      ELSE LET selected == SelectSilences(silences, h, num_pieces,
                                          num_pieces - 1)
           IN  [split_needed |-> TRUE,
                total_duration_minutes |-> h,
                recommended_pieces |-> num_pieces,
                selected_silences |-> selected,
                pieces |-> MakePiecePlan(selected, MinutesToMs(h))]

(* the planner runs on its two arguments and saves parts.json *)
CalculateIntelligentSplitPlan ==
  /\ pc = "plan"
  /\ split_plan' = CalculateSplitPlan(duration_minutes, silence_segments)
  /\ volume' = volume \cup {"parts.json"}
  /\ pc' = "planned"
  /\ UNCHANGED <<uploadVars, r2Vars, jobVars, fileVars, paramVars, poolVars, result, duration_minutes,
                 silence_segments>>

----------------------------------------------------------------------------
(* The planner on arbitrary arguments *)

MaxSilences == 2

PlannerMinutes == {0, 3, 300, 2000, 2001, 2004, 2010, 2250, 2300}
PlannerTimes == {0, 400000, 800000, 1200000, 1206000, 1500000}

SilenceRecord(index, start_ms, end_ms) ==
  [index |-> index,
   start_ms |-> start_ms,
   end_ms |-> end_ms,
   duration_ms |-> end_ms - start_ms]

(* lists of at most MaxSilences intervals with start_ms <= end_ms, in any
   order, overlapping or repeated *)
PlannerSilenceLists ==
  UNION {{[k \in 1..len |-> SilenceRecord(k, p[k][1], p[k][2])] :
            p \in [1..len -> {q \in PlannerTimes \X PlannerTimes :
                                q[1] <= q[2]}]} :
           len \in 0..MaxSilences}

InitPlanner ==
  /\ NoUpload /\ NoR2
  /\ NoJob
  /\ sr = 1 /\ ch = 1 /\ sw = 2 /\ x_mono = <<>>
  /\ min_silence_len_ms = 500 /\ silence_thresh_db = None
  /\ seek_step_ms = 20 /\ cpu = 1
  /\ thresh = None /\ chunks = <<>> /\ chunk_results = <<>>
  /\ worker_failed = {} /\ pool_raised = FALSE
  /\ result = NoResult
  /\ duration_minutes \in PlannerMinutes
  /\ silence_segments \in PlannerSilenceLists
  /\ split_plan = NoResult
  /\ volume = {}
  /\ pc = "plan"

NextPlanner == CalculateIntelligentSplitPlan

SpecPlanner == InitPlanner /\ [][NextPlanner]_vars

----------------------------------------------------------------------------
(* process_special_folder, steps 6 to 10: metadata, duration, detection,    *)
(* silence.json, plan.  The detector is called with its defaults: 500 ms,   *)
(* no threshold, 20 ms steps.  A file of more than 20 minutes whose windows *)
(* are 20 ms long has more than 60000 frames at 50 Hz, where hop is 1.      *)
(* round(d / 60, 2) meets a tie only when the frame count is 15 modulo 30   *)
(* at 50 Hz, and never at an odd rate; the files below avoid the ties,      *)
(* where the outcome would depend on the binary representation of d / 60.   *)

MinLongLen == 60299
MaxLongLen == 60302
SilenceLen == 30

JobSampleRates == {1, 3, 5}
LongSampleRates == {50}
SilenceStarts == {15000, 30000}

(* len samples: silent for SilenceLen samples from each start in s, and
   ending with tail silent samples *)
LongSignal(len, s, tail) ==
  [i \in 1..(len - tail) |->
     IF \E b \in s : i - 1 \in b..(b + SilenceLen - 1) THEN 0 ELSE 2]
  \o [i \in 1..tail |-> 0]

LongSignals ==
  {LongSignal(len, s, tail) : len \in MinLongLen..MaxLongLen,
                              s \in SUBSET SilenceStarts,
                              tail \in {0, SilenceLen}}

(* round(duration / 60, 2), in hundredths of a minute *)
DurationMinutes(len, rate) == RoundHalfEven(len * 100, 60 * rate)

(* who calls: the serverless handler, or process_special_folder itself *)
JobEntries == {"handler", "process_special_folder"}

(* the SpecialFolderCode of the job: the key is absent, or its value is "",
   a number, a string of two characters, or the name of a folder *)
FolderCodes == {"absent", "empty", "number", "short", "folder"}

(* what the job needs on the volume, each item within the one before it:
   the folder, its run.json, the key IslenmemisFileName in it, the audio
   file it names, and a wave header that wave.open accepts *)
Uploads == <<"folder", "run.json", "IslenmemisFileName", "audio", "wave">>

UploadStates == {{Uploads[i] : i \in 1..k} : k \in 0..Len(Uploads)}

AllUploads == {Uploads[i] : i \in 1..Len(Uploads)}

(* the job: has_input is the key "input" of the handler's job, torch is
   whether torch and torchaudio can be imported *)
Job(entry, has_input, code, split_audio, torch) ==
  [entry |-> entry, has_input |-> has_input, code |-> code,
   split_audio |-> split_audio, torch |-> torch]

InitJob ==
  /\ NoUpload /\ NoR2
  /\ \/ /\ sr \in JobSampleRates
        /\ x_mono \in Signals
        /\ sw \in SampleWidths
        /\ volume = AllUploads
        /\ \E entry \in JobEntries, split_audio \in BOOLEAN,
              torch \in BOOLEAN :
             /\ ~split_audio => torch
             /\ call = Job(entry, TRUE, "folder", split_audio, torch)
     \/ /\ sr \in LongSampleRates
        /\ x_mono \in LongSignals
        /\ sw \in SampleWidths
        /\ volume = AllUploads
        /\ call = Job("process_special_folder", TRUE, "folder", TRUE, TRUE)
     \/ /\ sr = 1 /\ x_mono = <<>> /\ sw = 2
        /\ volume \in UploadStates \ {AllUploads}
        /\ \E entry \in JobEntries, has_input \in BOOLEAN,
              code \in FolderCodes :
             /\ entry = "process_special_folder" => has_input
             /\ volume # {} => code = "folder"
             /\ call = Job(entry, has_input, code, FALSE, TRUE)
  /\ seek_step_ms = 20
  /\ ch = 1
  /\ min_silence_len_ms = 500
  /\ silence_thresh_db = None
  /\ cpu = 1
  /\ thresh = None /\ chunks = <<>> /\ chunk_results = <<>>
  /\ worker_failed = {} /\ pool_raised = FALSE
  /\ result = NoResult
  /\ duration_minutes = 0
  /\ silence_segments = <<>>
  /\ split_plan = NoResult
  /\ exception = NoException
  /\ piece_pos = 0 /\ split_results = <<>> /\ split_result = NoResult
  /\ job_result = NoResult
  /\ handler_result = NoResult
  /\ pc = call.entry

(* handler up to its call of process_special_folder: job["input"], then the
   test of SpecialFolderCode *)
Handler ==
  /\ pc = "handler"
  /\ IF ~call.has_input
     THEN /\ exception' = "KeyError: 'input'"
          /\ pc' = "handler_except"
          /\ UNCHANGED handler_result
     ELSE IF call.code \in {"absent", "empty"}
     THEN /\ handler_result' = [error |-> "SpecialFolderCode parametresi gerekli"]
          /\ pc' = "handler_done"
          /\ UNCHANGED exception
     ELSE /\ pc' = "process_special_folder"
          /\ UNCHANGED <<exception, handler_result>>
  /\ UNCHANGED <<uploadVars, r2Vars, fileVars, paramVars, poolVars, result, planVars, call,
                 splitVars, job_result>>

(* _validate_input: the error it reports, None if the code is valid *)
ValidateInput(code, folder) ==
  IF code \in {"absent", "empty"} THEN "SpecialFolderCode bos olamaz"
  ELSE IF code = "number" THEN "SpecialFolderCode string olmali"
  ELSE IF code = "short" THEN "SpecialFolderCode en az 3 karakter olmali"
  ELSE IF ~folder THEN "Klasor bulunamadi"
  ELSE NoException

(* process_special_folder, steps 1 to 4: validation, run.json and its key *)
ReadRunJson ==
  /\ pc = "process_special_folder"
  /\ LET error == ValidateInput(call.code, "folder" \in volume)
     IN  IF error # NoException
         THEN exception' = error /\ pc' = "except"
         ELSE IF "run.json" \notin volume
         THEN exception' = "JSON dosyasi bulunamadi" /\ pc' = "except"
         ELSE IF "IslenmemisFileName" \notin volume
         THEN /\ exception' = "run.json'da 'IslenmemisFileName' anahtari bulunamadi"
              /\ pc' = "except"
         ELSE exception' = exception /\ pc' = "job"
  /\ UNCHANGED <<uploadVars, r2Vars, fileVars, paramVars, poolVars, result, planVars, call,
                 splitVars, job_result, handler_result>>

(* _extract_and_save_metadata writes meta.json, or raises when the audio
   file is missing or wave.open rejects it *)
ExtractAndSaveMetadata ==
  /\ pc = "job"
  /\ IF "audio" \notin volume
     THEN /\ exception' = "Ses dosyasi bulunamadi"
          /\ pc' = "except"
          /\ UNCHANGED volume
     ELSE IF "wave" \notin volume
     THEN /\ exception' = "file does not start with RIFF id"
          /\ pc' = "except"
          /\ UNCHANGED volume
     ELSE /\ volume' = volume \cup {"meta.json"}
          /\ pc' = "meta"
          /\ UNCHANGED exception
  /\ UNCHANGED <<uploadVars, r2Vars, fileVars, paramVars, poolVars, result, duration_minutes,
                 silence_segments, split_plan, call, splitVars, job_result,
                 handler_result>>

(* _get_audio_duration *)
GetAudioDuration ==
  /\ pc = "meta"
  /\ duration_minutes' = DurationMinutes(Len(x_mono), sr)
  /\ pc' = "duration"
  /\ UNCHANGED <<uploadVars, r2Vars, jobVars, fileVars, paramVars, poolVars, result,
                 silence_segments, split_plan, volume>>

(* _detect_silence_segments_fast returns *)
DetectSilence ==
  /\ pc = "duration"
  /\ FastResult # Error
  /\ result' = FastResult
  /\ pc' = "detected"
  /\ UNCHANGED <<uploadVars, r2Vars, jobVars, fileVars, paramVars, poolVars, planVars>>

(* a detection failure that is swallowed: the job goes on to the plan *)
DetectSilenceSwallowed ==
  /\ pc = "duration"
  /\ FastResult = Error
  /\ result' = Error
  /\ pc' = "plan"
  /\ UNCHANGED <<uploadVars, r2Vars, jobVars, fileVars, paramVars, poolVars, planVars>>

(* _detect_silence_segments_fast raises: the job ends with a failure *)
DetectSilenceRaises ==
  /\ pc = "duration"
  /\ FastResult = Error
  /\ result' = Error
  /\ exception' = Error.error
  /\ pc' = "except"
  /\ UNCHANGED <<uploadVars, r2Vars, fileVars, paramVars, poolVars, planVars, call, splitVars,
                 job_result, handler_result>>

(* _create_silence_json writes silence.json; the same list goes to the planner *)
CreateSilenceJson ==
  /\ pc = "detected"
  /\ silence_segments' = result.silences
  /\ volume' = volume \cup {"silence.json"}
  /\ pc' = "plan"
  /\ UNCHANGED <<uploadVars, r2Vars, jobVars, fileVars, paramVars, poolVars, result,
                 duration_minutes, split_plan>>

(* the sample rate of the pieces *)
target_sr == 48000

(* the largest a, negative below one second, with 2^a * 1000 <= ms: the
   binary exponent of the double ms / 1000.0 *)
RECURSIVE SecondsExponent(_, _)
SecondsExponent(ms, a) ==
  IF ms >= 1000
  THEN IF 1000 * 2 ^ (a + 1) <= ms THEN SecondsExponent(ms, a + 1) ELSE a
  ELSE IF ms * 2 ^ (0 - a) < 1000 THEN SecondsExponent(ms, a - 1) ELSE a

(* the largest e with 2^e < n *)
RECURSIVE ExponentBelow(_, _)
ExponentBelow(n, e) ==
  IF 2 ^ (e + 1) < n THEN ExponentBelow(n, e + 1) ELSE e

RECURSIVE Pow2Mod1000(_)
Pow2Mod1000(s) == IF s = 0 THEN 1 ELSE (2 * Pow2Mod1000(s - 1)) % 1000

(* int((ms / 1000.0) * target_sr) in IEEE-754 doubles: ms / 1000.0 is
   rounded to 53 bits, and the product with 48000 falls below the integer
   48 * ms, which int() then truncates to 48 * ms - 1, exactly when the
   quotient was rounded down by more than a third of its last place and
   48 * ms lies in the upper part of its binade; t is the remainder of
   ms * 2^s by 1000 that decides the rounding.  E.g. int((9 / 1000.0) *
   48000) is 431, int((141 / 1000.0) * 48000) is 6767.  Equal to the
   expression in Python for every ms in 0..2000000. *)
MsToSamples(ms) ==
  IF ms = 0 THEN 0
  ELSE LET n == ms * (target_sr \div 1000)
           a == SecondsExponent(ms, IF ms >= 1000 THEN 0 ELSE -1)
           t == ((ms % 1000) * Pow2Mod1000(52 - a)) % 1000
       IN  IF ExponentBelow(n, 0) - a = 15 /\ 341 < t /\ t < 500
           THEN n - 1 ELSE n

(* audio.shape[1] after F.resample to target_sr: ceil(len * new / orig) on
   the frequencies divided by their gcd *)
ResampledLen(len, rate) ==
  CeilDiv(len * (target_sr \div Gcd(target_sr, rate)),
          rate \div Gcd(target_sr, rate))

(* start_sample of a piece: the trim added, then max(0, .) *)
StartSample(piece) ==
  Max(0, MsToSamples(piece.start_ms)
           + (IF piece.trim_leading_ms > 0
              THEN MsToSamples(piece.trim_leading_ms) ELSE 0))

(* end_sample of a piece: min(audio.shape[1], .) *)
EndSample(piece) ==
  Min(ResampledLen(Len(x_mono), sr), MsToSamples(piece.end_ms))

(* an empty range is cut and saved *)
InvalidRangeStrict(start_sample, end_sample) == start_sample > end_sample

(* if start_sample >= end_sample: continue *)
InvalidRange(start_sample, end_sample) == start_sample >= end_sample

(* piece_filename within the Parts folder *)
PieceFile(piece_index) == "Parts/" \o ToString(piece_index) \o ".wav"

(* the extraction up to its loop: imports, parts.json, run.json, Parts
   folder, torchaudio.load and resampling; its own except clause turns
   every exception into a failure result *)
SplitBegin ==
  /\ pc = "planned"
  /\ call.split_audio
  /\ LET error ==
           IF ~call.torch
           THEN "torch/torchaudio bulunamadi - parcalama devre disi"
           ELSE IF "parts.json" \notin volume THEN "parts.json bulunamadi"
           ELSE IF "run.json" \notin volume THEN "run.json"
           ELSE IF "IslenmemisFileName" \notin volume
           THEN "KeyError: 'IslenmemisFileName'"
           ELSE IF "audio" \notin volume THEN "Ses dosyasi bulunamadi"
           ELSE IF "wave" \notin volume THEN "torchaudio.load"
           ELSE NoException
     IN  IF error # NoException
         THEN /\ split_result' = [success |-> FALSE, error |-> error]
              /\ pc' = "split_done"
              /\ UNCHANGED <<piece_pos, split_results>>
         ELSE /\ piece_pos' = 1
              /\ split_results' = <<>>
              /\ pc' = "split"
              /\ UNCHANGED split_result
  /\ UNCHANGED <<uploadVars, r2Vars, fileVars, paramVars, poolVars, result, planVars, call,
                 exception, job_result, handler_result>>

(* one pass of the loop over the pieces: skip the piece, or cut it, save
   it and append its record *)
SplitPiece ==
  /\ pc = "split"
  /\ piece_pos <= Len(split_plan.pieces)
  /\ LET piece == split_plan.pieces[piece_pos]
         start_sample == StartSample(piece)
         end_sample == EndSample(piece)
     IN  IF InvalidRange(start_sample, end_sample)
         THEN UNCHANGED <<split_results, volume>>
         ELSE /\ split_results' =
                   Append(split_results,
                          [piece_index |-> piece.piece_index,
                           filename |-> PieceFile(piece.piece_index),
                           start_ms |-> piece.start_ms,
                           end_ms |-> piece.end_ms,
                           trim_leading_ms |-> piece.trim_leading_ms,
                           samples |-> end_sample - start_sample])
              /\ volume' = volume \cup {PieceFile(piece.piece_index)}
  /\ piece_pos' = piece_pos + 1
  /\ UNCHANGED <<uploadVars, r2Vars, fileVars, paramVars, pc, poolVars, result, duration_minutes,
                 silence_segments, split_plan, call, exception, split_result,
                 job_result, handler_result>>

(* the loop is over: the summary of the pieces saved *)
SplitEnd ==
  /\ pc = "split"
  /\ piece_pos > Len(split_plan.pieces)
  /\ split_result' = [success |-> TRUE,
                      total_pieces |-> Len(split_results),
                      pieces |-> split_results]
  /\ pc' = "split_done"
  /\ UNCHANGED <<uploadVars, r2Vars, fileVars, paramVars, poolVars, result, planVars, call,
                 exception, piece_pos, split_results, job_result,
                 handler_result>>

(* process_special_folder returns its result *)
ProcessReturn ==
  /\ call.entry \in JobEntries
  /\ \/ pc = "planned" /\ ~call.split_audio
     \/ pc = "split_done"
  /\ job_result' = [success |-> TRUE,
                    silence_analysis |-> result,
                    split_plan |-> split_plan,
                    split_audio |-> call.split_audio,
                    split_result |-> IF call.split_audio THEN split_result
                                     ELSE None]
  /\ pc' = "returned"
  /\ UNCHANGED <<uploadVars, r2Vars, fileVars, paramVars, poolVars, result, planVars, call,
                 exception, splitVars, handler_result>>

(* an except clause that logs and raises again *)
ProcessExceptReraises ==
  /\ pc = "except"
  /\ pc' = IF call.entry = "handler" THEN "handler_except" ELSE "escaped"
  /\ UNCHANGED <<uploadVars, r2Vars, fileVars, paramVars, poolVars, result, planVars, jobVars>>

(* the except clause of process_special_folder: a failure result *)
ProcessExcept ==
  /\ pc = "except"
  /\ job_result' = [success |-> FALSE, error |-> exception]
  /\ exception' = NoException
  /\ pc' = "returned"
  /\ UNCHANGED <<uploadVars, r2Vars, fileVars, paramVars, poolVars, result, planVars, call,
                 splitVars, handler_result>>

(* handler after process_special_folder returned *)
HandlerReturn ==
  /\ pc = "returned"
  /\ call.entry = "handler"
  /\ handler_result' =
       IF job_result.success
       THEN [success |-> TRUE,
             silence_analysis |-> job_result.silence_analysis,
             split_plan |-> job_result.split_plan]
       ELSE [error |-> job_result.error]
  /\ pc' = "handler_done"
  /\ UNCHANGED <<uploadVars, r2Vars, fileVars, paramVars, poolVars, result, planVars, call,
                 exception, splitVars, job_result>>

(* the except clause of handler *)
HandlerExcept ==
  /\ pc = "handler_except"
  /\ handler_result' = [error |-> exception]
  /\ exception' = NoException
  /\ pc' = "handler_done"
  /\ UNCHANGED <<uploadVars, r2Vars, fileVars, paramVars, poolVars, result, planVars, call,
                 splitVars, job_result>>

NextJob ==
  \/ Handler
  \/ ReadRunJson
  \/ ExtractAndSaveMetadata
  \/ GetAudioDuration
  \/ DetectSilence
  \/ DetectSilenceRaises
  \/ CreateSilenceJson
  \/ CalculateIntelligentSplitPlan
  \/ SplitBegin
  \/ SplitPiece
  \/ SplitEnd
  \/ ProcessReturn
  \/ ProcessExcept
  \/ HandlerReturn
  \/ HandlerExcept

SpecJob == InitJob /\ [][NextJob]_vars

----------------------------------------------------------------------------
(* split_audio_from_parts_json on the parts.json it finds: any pieces,     *)
(* numbered by position as the piece builder numbers them                  *)

MaxPieces == 2

ExtractStarts == {0, 4000, 5000}
ExtractEnds == {4000, 5000}
ExtractTrims == {0, 141, 1000}
ExtractSeconds == {0, 4}

ExtractPlans ==
  UNION {{[k \in 1..len |-> Piece(k, p[k][1], p[k][2], p[k][3])] :
            p \in [1..len -> ExtractStarts \X ExtractEnds \X ExtractTrims]} :
           len \in 0..MaxPieces}

InitExtract ==
  /\ NoUpload /\ NoR2
  /\ sr = 1 /\ ch = 1 /\ sw = 2
  /\ \E seconds \in ExtractSeconds : x_mono = [i \in 1..seconds |-> 0]
  /\ min_silence_len_ms = 500 /\ silence_thresh_db = None
  /\ seek_step_ms = 20 /\ cpu = 1
  /\ thresh = None /\ chunks = <<>> /\ chunk_results = <<>>
  /\ worker_failed = {} /\ pool_raised = FALSE
  /\ result = NoResult
  /\ duration_minutes = 0
  /\ silence_segments = <<>>
  /\ \/ /\ \E pieces \in ExtractPlans : split_plan = [pieces |-> pieces]
        /\ volume = AllUploads \cup {"parts.json"}
     \/ /\ split_plan = NoResult
        /\ volume = AllUploads
  /\ call = Job("split_audio_from_parts_json", TRUE, "folder", TRUE, TRUE)
  /\ exception = NoException
  /\ piece_pos = 0 /\ split_results = <<>> /\ split_result = NoResult
  /\ job_result = NoResult
  /\ handler_result = NoResult
  /\ pc = "planned"

NextExtract ==
  \/ SplitBegin
  \/ SplitPiece
  \/ SplitEnd

SpecExtract == InitExtract /\ [][NextExtract]_vars

----------------------------------------------------------------------------
(* Properties of the planner *)

Planned == pc = "planned"

Pieces == split_plan.pieces

(* the plan's total duration in ms: total_duration_minutes * 60 * 1000 *)
PlanTotalMs == split_plan.total_duration_minutes * 600

(* C7: in every plan the first piece starts at 0, the last piece ends at
   the total duration in ms, and consecutive pieces leave no gap *)
C7_PlanCoversTotalDuration ==
  Planned =>
    /\ Pieces[1].start_ms = 0
    /\ Pieces[Len(Pieces)].end_ms = PlanTotalMs
    /\ \A i \in 1..(Len(Pieces) - 1) :
         Pieces[i].end_ms >= Pieces[i + 1].start_ms

(* C8: every piece of a plan built from the detector's silence list has
   trim_leading_ms >= 0 and start_ms + trim_leading_ms <= end_ms *)
C8_TrimInsidePiece ==
  Planned =>
    \A i \in 1..Len(Pieces) :
      /\ Pieces[i].trim_leading_ms >= 0
      /\ Pieces[i].start_ms + Pieces[i].trim_leading_ms <= Pieces[i].end_ms

(* C9: a total duration of 20.0 minutes or less yields, for any silence
   list, split_needed = false and the single piece with piece_index 1,
   start_ms 0, end_ms the total duration in ms and trim_leading_ms 0 *)
C9_ShortFileSinglePiece ==
  (Planned /\ duration_minutes <= 2000) =>
    /\ split_plan.split_needed = FALSE
    /\ Len(Pieces) = 1
    /\ Pieces[1].piece_index = 1
    /\ Pieces[1].start_ms = 0
    /\ Pieces[1].end_ms = PlanTotalMs
    /\ Pieces[1].trim_leading_ms = 0

(* C10: from m >= 1 selected intervals (a_1,b_1)..(a_m,b_m) the builder
   makes m + 1 pieces indexed 1..m+1: [0, b_1] with trim 0, then
   [a_(i-1), b_i] with trim max(0, b_(i-1) - a_(i-1)), and last
   [a_m, total_ms] with trim max(0, b_m - a_m) *)
C10_OverlapTrimPieces ==
  (Planned /\ split_plan.split_needed
           /\ Len(split_plan.selected_silences) >= 1) =>
    LET sel == split_plan.selected_silences
        m == Len(sel)
        total_ms == MinutesToMs(duration_minutes)
    IN  /\ Len(Pieces) = m + 1
        /\ \A i \in 1..(m + 1) : Pieces[i].piece_index = i
        /\ Pieces[1].start_ms = 0
        /\ Pieces[1].end_ms = sel[1][2]
        /\ Pieces[1].trim_leading_ms = 0
        /\ \A i \in 2..m :
             /\ Pieces[i].start_ms = sel[i - 1][1]
             /\ Pieces[i].end_ms = sel[i][2]
             /\ Pieces[i].trim_leading_ms
                  = Max(0, sel[i - 1][2] - sel[i - 1][1])
        /\ Pieces[m + 1].start_ms = sel[m][1]
        /\ Pieces[m + 1].end_ms = total_ms
        /\ Pieces[m + 1].trim_leading_ms = Max(0, sel[m][2] - sel[m][1])

(* three targets chose intervals, the first two of different lengths *)
C10_Witness ==
  /\ Planned /\ split_plan.split_needed
  /\ Len(split_plan.selected_silences) = 3
  /\ LET sel == split_plan.selected_silences
     IN  /\ sel[1] # sel[2]
         /\ sel[1][2] - sel[1][1] > 0
         /\ sel[2][2] - sel[2][1] > sel[1][2] - sel[1][1]

(* C17: for a total duration above 20 minutes and an empty silence list no
   interval is selected for any target, and the plan has exactly one piece,
   [0, total_ms] with total_ms = int(total_duration_minutes * 60 * 1000),
   of piece_index 1 and trim_leading_ms 0 *)
C17_NoSilenceSinglePiece ==
  (Planned /\ duration_minutes > 2000 /\ silence_segments = <<>>) =>
    /\ split_plan.selected_silences = <<>>
    /\ Len(Pieces) = 1
    /\ Pieces[1].piece_index = 1
    /\ Pieces[1].start_ms = 0
    /\ Pieces[1].end_ms = MinutesToMs(duration_minutes)
    /\ Pieces[1].trim_leading_ms = 0

(* a plan for more than 20 minutes without any silence *)
C17_Witness ==
  /\ Planned /\ duration_minutes > 2000 /\ silence_segments = <<>>
  /\ split_plan.split_needed
  /\ split_plan.recommended_pieces >= 4
  /\ Len(Pieces) = 1

(* twice the distance of the middle of silence j from k * total / n, times n,
   for the total duration of h hundredths of a minute *)
MiddleToTarget(j, h, n, k) ==
  Abs((silence_segments[j].start_ms + silence_segments[j].end_ms) * n
        - 1200 * h * k)

(* C18: above 20 minutes the target piece count is n = max(2,
   round(total_duration_minutes / 5)), round being to the nearest integer
   and to the even one of two nearest, and there are exactly n - 1 targets,
   the k-th at k * total_duration / n for k = 1..n-1 in this order: with a
   silence list that is not empty, the k-th of the n - 1 selected intervals
   is a silence whose middle is nearest to k * total_duration / n *)
C18_TargetsEvenlySpaced ==
  (Planned /\ duration_minutes > 2000) =>
    LET h == duration_minutes
        n == split_plan.recommended_pieces
        sel == split_plan.selected_silences
    IN  /\ \E r \in 0..n :
             /\ n = Max(2, r)
             /\ \/ Abs(2 * h - 1000 * r) < 500
                \/ Abs(2 * h - 1000 * r) = 500 /\ r % 2 = 0
        /\ silence_segments # <<>> =>
             /\ Len(sel) = n - 1
             /\ \A k \in 1..(n - 1) :
                  \E j \in 1..Len(silence_segments) :
                    /\ sel[k] = <<silence_segments[j].start_ms,
                                  silence_segments[j].end_ms>>
                    /\ \A i \in 1..Len(silence_segments) :
                         MiddleToTarget(j, h, n, k)
                           <= MiddleToTarget(i, h, n, k)

(* 22.5 minutes, halfway between four and five pieces, and 23 minutes with
   five pieces whose first and last targets chose different silences *)
C18_Witness ==
  /\ Planned
  /\ \/ /\ duration_minutes = 2250
        /\ split_plan.recommended_pieces = 4
        /\ Len(split_plan.selected_silences) = 3
     \/ /\ duration_minutes = 2300
        /\ split_plan.recommended_pieces = 5
        /\ Len(split_plan.selected_silences) = 4
        /\ split_plan.selected_silences[1] # split_plan.selected_silences[4]

(* the first silence of the list among those whose middle is nearest to
   target k of n *)
FirstNearest(h, n, k) ==
  CHOOSE j \in 1..Len(silence_segments) :
    /\ \A i \in 1..Len(silence_segments) :
         MiddleToTarget(j, h, n, k) <= MiddleToTarget(i, h, n, k)
    /\ \A i \in 1..(j - 1) :
         MiddleToTarget(j, h, n, k) < MiddleToTarget(i, h, n, k)

(* C21: for each target and a silence list that is not empty, exactly one
   interval is selected: the one whose middle (start_ms + end_ms) / 2 is
   nearest to the target k * total_duration / n, and of several at the
   same distance the first of the list *)
C21_NearestFirstSelected ==
  (Planned /\ duration_minutes > 2000 /\ silence_segments # <<>>) =>
    LET h == duration_minutes
        n == split_plan.recommended_pieces
        sel == split_plan.selected_silences
    IN  /\ Len(sel) = n - 1
        /\ \A k \in 1..(n - 1) :
             sel[k] = <<silence_segments[FirstNearest(h, n, k)].start_ms,
                        silence_segments[FirstNearest(h, n, k)].end_ms>>

(* the silence list as the detector returns it: ordered by start_ms and
   without overlap *)
DetectorOrdered(silences) ==
  /\ \A j \in 1..Len(silences) : silences[j].start_ms <= silences[j].end_ms
  /\ \A j \in 1..(Len(silences) - 1) :
       silences[j].end_ms <= silences[j + 1].start_ms

(* C23: on a silence list ordered by start_ms and without overlap, the
   intervals selected for the ascending targets are in time order: a later
   target never selects an interval that starts before the one selected for
   an earlier target, and no piece [a_(i-1), b_i] ends before it starts *)
C23_SelectionsInTimeOrder ==
  (Planned /\ duration_minutes > 2000 /\ DetectorOrdered(silence_segments)) =>
    LET sel == split_plan.selected_silences
    IN  /\ \A k \in 1..(Len(sel) - 1) : sel[k][1] <= sel[k + 1][1]
        /\ \A i \in 2..Len(sel) :
             /\ Pieces[i].start_ms = sel[i - 1][1]
             /\ Pieces[i].end_ms = sel[i][2]
             /\ Pieces[i].end_ms >= Pieces[i].start_ms

(* two intervals with a gap between them, and the targets select the
   earlier one first and the later one afterwards *)
C23_Witness ==
  /\ Planned /\ duration_minutes > 2000
  /\ Len(silence_segments) = 2
  /\ silence_segments[1].end_ms < silence_segments[2].start_ms
  /\ silence_segments[1].start_ms < silence_segments[1].end_ms
  /\ DetectorOrdered(silence_segments)
  /\ \E k \in 1..(Len(split_plan.selected_silences) - 1) :
       split_plan.selected_silences[k][1]
         < split_plan.selected_silences[k + 1][1]

(* C24: every piece of a plan with split_needed = true has a positive
   effective length, start_ms + trim_leading_ms < end_ms, also when two
   adjacent targets are nearest to the same silence interval *)
C24_PiecesHavePositiveLength ==
  (Planned /\ split_plan.split_needed /\ DetectorOrdered(silence_segments)) =>
    \A i \in 1..Len(Pieces) :
      Pieces[i].start_ms + Pieces[i].trim_leading_ms < Pieces[i].end_ms

(* C26: for every total duration above 20 minutes and every silence list
   that is not empty, the plan has recommended_pieces pieces: one interval
   per target, n - 1 selections, n pieces *)
C26_PieceCountIsRecommended ==
  (Planned /\ duration_minutes > 2000 /\ silence_segments # <<>>) =>
    /\ Len(split_plan.selected_silences) = split_plan.recommended_pieces - 1
    /\ Len(Pieces) = split_plan.recommended_pieces
    /\ split_plan.recommended_pieces = NumPieces(duration_minutes)

(* a four-piece plan whose three targets all select the only silence *)
C26_Witness ==
  /\ Planned /\ duration_minutes > 2000
  /\ Len(silence_segments) = 1
  /\ split_plan.recommended_pieces = 4
  /\ Len(Pieces) = 4
  /\ split_plan.selected_silences[1] = split_plan.selected_silences[3]

----------------------------------------------------------------------------
(* _detect_silence_segments_fast on signals of zero and full-scale samples, *)
(* and on one long file.  The mean square of a full-scale window is exactly *)
(* 0 dB; a window of two samples, one of them zero, lies 3 dB below.        *)

MaxDetectLen == 9

DetectLevels == {0, AmpDen}
DetectSampleRates == {2, 4}
DetectThresholds == {None, Db(0)}

DetectSignals == UNION {[1..len -> DetectLevels] : len \in 0..MaxDetectLen}

ScenarioRates == {1000, 8000}

(* 30 s of samples: zero from 10.0 s to 12.0 s, amplitude 1/2 elsewhere *)
ScenarioSignal(rate) ==
  [i \in 1..(10 * rate) |-> AmpDen \div 2] \o [i \in 1..(2 * rate) |-> 0]
    \o [i \in 1..(18 * rate) |-> AmpDen \div 2]

InitDetect ==
  /\ NoUpload /\ NoR2
  /\ NoJob
  /\ \/ /\ sr \in DetectSampleRates
        /\ x_mono \in DetectSignals
        /\ min_silence_len_ms \in MinSilenceLens
        /\ silence_thresh_db \in DetectThresholds
        /\ seek_step_ms \in SeekSteps
     \/ /\ sr \in ScenarioRates
        /\ x_mono = ScenarioSignal(sr)
        /\ min_silence_len_ms = 500
        /\ silence_thresh_db = None
        /\ seek_step_ms = 20
  /\ ch = 1 /\ sw = 2
  /\ cpu = 1
  /\ pc = "call"
  /\ thresh = None /\ chunks = <<>> /\ chunk_results = <<>>
  /\ worker_failed = {} /\ pool_raised = FALSE
  /\ result = NoResult
  /\ duration_minutes = 0
  /\ silence_segments = <<>>
  /\ split_plan = NoResult
  /\ volume = {}

NextDetect == CallSequential

SpecDetect == InitDetect /\ [][NextDetect]_vars

(* C15: 30 s of mono 16-bit audio at 8000 Hz (and at 1000 Hz), zero from
   10.0 s to 12.0 s and of amplitude 0.5 elsewhere, detected with
   min_silence_len_ms 500, seek_step_ms 20 and no threshold, gives exactly
   one interval, with start_ms in [9980, 10020] and end_ms in
   [11980, 12020] *)
C15_TwoSecondGap ==
  (Returned /\ sr \in ScenarioRates /\ Len(x_mono) = 30 * sr
     /\ min_silence_len_ms = 500 /\ seek_step_ms = 20
     /\ silence_thresh_db = None /\ sw = 2 /\ ch = 1) =>
    /\ result # Error
    /\ result.segment_count = 1
    /\ Len(Silences(result)) = 1
    /\ Silences(result)[1].start_ms \in 9980..10020
    /\ Silences(result)[1].end_ms \in 11980..12020

(* the detector has returned on the 30 s file *)
C15_Witness ==
  /\ Returned /\ sr \in ScenarioRates /\ Len(x_mono) = 30 * sr
  /\ sw = 2 /\ ch = 1
  /\ min_silence_len_ms = 500 /\ seek_step_ms = 20
  /\ silence_thresh_db = None
  /\ result # Error /\ result.audio_duration_ms = 30000

(* the loudness of window i (0-based) is strictly below the threshold; the
   samples past the end of the signal are zero *)
WindowBelowThreshold(i) ==
  LET hop == Hop(sr, seek_step_ms)
  IN  SumSqRange(x_mono, i * hop + 1, Min((i + 1) * hop, Len(x_mono)))
        * thresh[2] < thresh[1] * hop

WindowAtThreshold(i) ==
  LET hop == Hop(sr, seek_step_ms)
  IN  SumSqRange(x_mono, i * hop + 1, Min((i + 1) * hop, Len(x_mono)))
        * thresh[2] = thresh[1] * hop

(* the maximal runs <<s, e>> of windows s..e-1 below the threshold *)
MaximalRuns ==
  LET n == NHops(Len(x_mono), Hop(sr, seek_step_ms))
      below == {i \in 0..(n - 1) : WindowBelowThreshold(i)}
      first == {i \in below : i - 1 \notin below}
      last == {i \in below : i + 1 \notin below}
  IN  {r \in first \X {i + 1 : i \in last} :
         /\ r[1] < r[2]
         /\ \A i \in r[1]..(r[2] - 1) : i \in below}

LongRuns ==
  {r \in MaximalRuns : (r[2] - r[1]) * seek_step_ms >= min_silence_len_ms}

(* C20: the reported intervals are, in order, the maximal runs of windows
   strictly below the threshold with run_length * seek_step_ms >=
   min_silence_len_ms, each reported at its window boundaries clamped to
   the audio duration; a window at the threshold is not silent, a shorter
   run is dropped and runs apart by a non-silent window are not merged *)
C20_IntervalsAreLongRuns ==
  (Returned /\ result # Error) =>
    /\ Len(Silences(result)) = Cardinality(LongRuns)
    /\ \A r \in LongRuns :
         LET k == Cardinality({q \in LongRuns : q[1] < r[1]}) + 1
         IN  /\ Silences(result)[k].start_ms
                  = Min(r[1] * seek_step_ms, result.audio_duration_ms)
             /\ Silences(result)[k].end_ms
                  = Min(r[2] * seek_step_ms, result.audio_duration_ms)

(* two reported runs apart by one window exactly at the threshold, and a
   shorter run that was dropped *)
C20_Witness ==
  /\ Returned /\ result # Error
  /\ result.segment_count = 2
  /\ \E r \in LongRuns :
       /\ WindowAtThreshold(r[2])
       /\ \E q \in LongRuns : q[1] = r[2] + 1
  /\ MaximalRuns # LongRuns

----------------------------------------------------------------------------
(* Properties of the extraction and of the job *)

(* the range of the piece is not empty after the trim and the clamping *)
Emitted(piece) == StartSample(piece) < EndSample(piece)

(* C11: a piece whose start sample, after the trim and the clamping, is >=
   its clamped end sample is skipped: no record and no file for it, while
   every other piece the loop has passed has its record, in order, and its
   file, and the result reports success with total_pieces the number of
   records *)
C11_InvalidPieceSkipped ==
  (pc \in {"split", "split_done"} /\ piece_pos >= 1) =>
    LET pieces == split_plan.pieces
        kept == SelectSeq(SubSeq(pieces, 1, piece_pos - 1), Emitted)
    IN  /\ Len(split_results) = Len(kept)
        /\ \A i \in 1..Len(kept) :
             /\ split_results[i].piece_index = kept[i].piece_index
             /\ split_results[i].start_ms = kept[i].start_ms
             /\ split_results[i].end_ms = kept[i].end_ms
        /\ \A i \in 1..Len(pieces) :
             PieceFile(pieces[i].piece_index) \in volume
               <=> (i < piece_pos /\ Emitted(pieces[i]))
        /\ pc = "split_done" =>
             /\ piece_pos = Len(pieces) + 1
             /\ split_result.success
             /\ split_result.total_pieces = Len(kept)
             /\ split_result.pieces = split_results

(* the plan's first piece has start_ms 5000 and end_ms 4000 and was
   skipped, its second piece was saved *)
C11_Witness ==
  /\ pc = "split_done" /\ split_result.success
  /\ Len(split_plan.pieces) = 2
  /\ split_plan.pieces[1].start_ms = 5000
  /\ split_plan.pieces[1].end_ms = 4000
  /\ split_result.total_pieces = 1
  /\ split_results[1].piece_index = 2
  /\ PieceFile(1) \notin volume /\ PieceFile(2) \in volume

(* the job cannot succeed: no input, no usable folder code, something
   missing on the volume, or a sample width the decoder rejects *)
BadJob ==
  \/ ~call.has_input
  \/ call.code # "folder"
  \/ ~(AllUploads \subseteq volume)
  \/ sw \notin {1, 2, 4}

(* C12: no exception leaves process_special_folder or handler: an exception
   is under way only on its way to an except clause, what
   process_special_folder returns has success true, or success false and an
   error message, what handler returns has success true or an error
   message; and a job that cannot succeed ends with the error *)
C12_NoExceptionEscapes ==
  /\ pc # "escaped"
  /\ exception # NoException => pc \in {"except", "handler_except"}
  /\ job_result # NoResult =>
       \/ job_result.success
       \/ ~job_result.success /\ job_result.error # NoException
  /\ handler_result # NoResult =>
       \/ "success" \in DOMAIN handler_result /\ handler_result.success
       \/ /\ "error" \in DOMAIN handler_result
          /\ handler_result.error # NoException
  /\ (pc = "returned" /\ BadJob) => ~job_result.success
  /\ (pc = "handler_done" /\ BadJob) => "error" \in DOMAIN handler_result
  /\ pc \in {"returned", "handler_done"} =>
       (job_result # NoResult \/ handler_result # NoResult)

(* process_special_folder, called directly, has returned a failure for a
   run.json without IslenmemisFileName *)
C12_Witness ==
  /\ pc = "returned"
  /\ call.entry = "process_special_folder"
  /\ "run.json" \in volume /\ "IslenmemisFileName" \notin volume
  /\ ~job_result.success
  /\ job_result.error # NoException
  /\ exception = NoException

(* the extraction has been started *)
SplitStarted ==
  piece_pos > 0 \/ split_result # NoResult \/ pc \in {"split", "split_done"}

(* C13: silence.json is written only after the detection has returned,
   parts.json only after silence.json, and the extraction starts only after
   parts.json; when the audio cannot be decoded or the detection fails,
   silence.json and parts.json are never written, no extraction is started
   and the job returns a failure *)
C13_StagesInOrder ==
  /\ "silence.json" \in volume => (result # NoResult /\ result # Error)
  /\ "parts.json" \in volume => "silence.json" \in volume
  /\ SplitStarted => "parts.json" \in volume
  /\ ("audio" \in volume /\ ("wave" \notin volume \/ sw \notin {1, 2, 4})) =>
       /\ "silence.json" \notin volume
       /\ "parts.json" \notin volume
       /\ ~SplitStarted
       /\ job_result # NoResult => ~job_result.success

(* a job that asked for the pieces has returned a failure after the
   detection rejected the sample width *)
C13_Witness ==
  /\ pc = "returned"
  /\ result = Error
  /\ call.split_audio
  /\ ~job_result.success
  /\ "meta.json" \in volume
  /\ "silence.json" \notin volume /\ "parts.json" \notin volume
  /\ ~SplitStarted

(* C25: in process_special_folder the end_ms of the plan's last piece is
   the audio_duration_ms the detector reported for the same file, for every
   frame count and sample rate, and every selected silence lies inside
   [0, that end_ms] *)
C25_PlanEndsAtDetectedDuration ==
  (pc = "planned" /\ call.entry \in JobEntries) =>
    /\ Pieces[Len(Pieces)].end_ms = result.audio_duration_ms
    /\ split_plan.split_needed =>
         \A k \in 1..Len(split_plan.selected_silences) :
           /\ 0 <= split_plan.selected_silences[k][1]
           /\ split_plan.selected_silences[k][2] <= Pieces[Len(Pieces)].end_ms

----------------------------------------------------------------------------
(* manual_multipart_upload: the file is read in chunks of 10 MB and every     *)
(* chunk is sent as one part, with up to max_retries attempts.  A request to  *)
(* the S3 client either returns or raises; s3_calls keeps the requests made.  *)

MaxChunks == 3

max_retries == 3

UploadIds == {"upload-1", "upload-2"}

ETags == {"etag-1", "etag-2"}

Returns(value) == [returned |-> TRUE, value |-> value]

(* the detector, the planner and the volume job take no part *)
NoAudio ==
  /\ sr = 1 /\ ch = 1 /\ sw = 2 /\ x_mono = <<>>
  /\ min_silence_len_ms = 500 /\ silence_thresh_db = None
  /\ seek_step_ms = 20 /\ cpu = 1
  /\ thresh = None /\ chunks = <<>> /\ chunk_results = <<>>
  /\ worker_failed = {} /\ pool_raised = FALSE
  /\ result = NoResult
  /\ duration_minutes = 0 /\ silence_segments = <<>>
  /\ split_plan = NoResult
  /\ volume = {}

InitUpload ==
  /\ NoJob /\ NoR2 /\ NoAudio
  /\ file_chunks \in 0..MaxChunks
  /\ file_exists \in BOOLEAN
  /\ file_pos = 0
  /\ upload_id = NoException
  /\ parts = <<>> /\ part_number = 1 /\ attempt = 0
  /\ s3_calls = <<>>
  /\ upload_result = NoResult
  /\ pc = "initiate"

(* create_multipart_upload returns; parts, part_number and file_size are
   set up, and os.path.getsize raises outside the try when the file is not
   there *)
CreateMultipartUpload ==
  /\ pc = "initiate"
  /\ \E id \in UploadIds :
       /\ s3_calls' = Append(s3_calls, [op |-> "create_multipart_upload",
                                        UploadId |-> id])
       /\ upload_id' = id
  /\ parts' = <<>>
  /\ part_number' = 1
  /\ pc' = IF file_exists THEN "read" ELSE "raised"
  /\ UNCHANGED <<file_chunks, file_exists, file_pos, attempt, upload_result,
                 fileVars, paramVars, poolVars, result, planVars, jobVars,
                 r2Vars>>

(* create_multipart_upload raises: nothing was initiated and the exception
   leaves the function *)
CreateMultipartUploadRaises ==
  /\ pc = "initiate"
  /\ s3_calls' = Append(s3_calls, [op |-> "create_multipart_upload",
                                   UploadId |-> NoException])
  /\ pc' = "raised"
  /\ UNCHANGED <<file_chunks, file_exists, file_pos, upload_id, parts,
                 part_number, attempt, upload_result,
                 fileVars, paramVars, poolVars, result, planVars, jobVars,
                 r2Vars>>

(* chunk = file.read(chunk_size): the next chunk, or the end of the loop *)
ReadChunk ==
  /\ pc = "read"
  /\ IF file_pos < file_chunks
     THEN /\ file_pos' = file_pos + 1
          /\ attempt' = 0
          /\ pc' = "upload_part"
     ELSE /\ pc' = "complete"
          /\ UNCHANGED <<file_pos, attempt>>
  /\ UNCHANGED <<file_chunks, file_exists, upload_id, parts, part_number,
                 s3_calls, upload_result,
                 fileVars, paramVars, poolVars, result, planVars, jobVars,
                 r2Vars>>

UploadPartCall(ok) ==
  [op |-> "upload_part", PartNumber |-> part_number, UploadId |-> upload_id,
   Body |-> file_pos, ok |-> ok]

(* a loop that sends every chunk under the number of the first part *)
SamePartNumber(n) == n

(* part_number += 1 *)
NextPartNumber(n) == n + 1

(* upload_part returns: the part is recorded, the retry loop is left and
   part_number advances *)
UploadPart ==
  /\ pc = "upload_part"
  /\ s3_calls' = Append(s3_calls, UploadPartCall(TRUE))
  /\ \E etag \in ETags :
       parts' = Append(parts, [ETag |-> etag, PartNumber |-> part_number])
  /\ part_number' = NextPartNumber(part_number)
  /\ pc' = "read"
  /\ UNCHANGED <<file_chunks, file_exists, file_pos, upload_id, attempt,
                 upload_result,
                 fileVars, paramVars, poolVars, result, planVars, jobVars,
                 r2Vars>>

(* a retry loop that allows one attempt more *)
RetryAllowedOnceMore(a) == a < max_retries

(* attempt < max_retries - 1 *)
RetryAllowed(a) == a < max_retries - 1

(* upload_part raises: the next attempt after the backoff, or, on the last
   attempt, the exception is raised to the outer handler *)
UploadPartRaises ==
  /\ pc = "upload_part"
  /\ s3_calls' = Append(s3_calls, UploadPartCall(FALSE))
  /\ IF RetryAllowed(attempt)
     THEN /\ attempt' = attempt + 1
          /\ UNCHANGED pc
     ELSE /\ pc' = "abort"
          /\ UNCHANGED attempt
  /\ UNCHANGED <<file_chunks, file_exists, file_pos, upload_id, parts,
                 part_number, upload_result,
                 fileVars, paramVars, poolVars, result, planVars, jobVars,
                 r2Vars>>

(* complete_multipart_upload with the parts list: it returns, which needs
   at least one part, and the function returns True; or it raises *)
CompleteMultipartUpload ==
  /\ pc = "complete"
  /\ \E ok \in BOOLEAN :
       /\ ok => parts # <<>>
       /\ s3_calls' = Append(s3_calls, [op |-> "complete_multipart_upload",
                                        UploadId |-> upload_id,
                                        Parts |-> parts, ok |-> ok])
       /\ IF ok
          THEN /\ upload_result' = Returns(TRUE)
               /\ pc' = "returned"
          ELSE /\ pc' = "abort"
               /\ UNCHANGED upload_result
  /\ UNCHANGED <<file_chunks, file_exists, file_pos, upload_id, parts,
                 part_number, attempt,
                 fileVars, paramVars, poolVars, result, planVars, jobVars,
                 r2Vars>>

(* the outer except: abort_multipart_upload, whose own failure is passed
   over, and the function returns False *)
AbortMultipartUpload ==
  /\ pc = "abort"
  /\ \E ok \in BOOLEAN :
       s3_calls' = Append(s3_calls, [op |-> "abort_multipart_upload",
                                     UploadId |-> upload_id, ok |-> ok])
  /\ upload_result' = Returns(FALSE)
  /\ pc' = "returned"
  /\ UNCHANGED <<file_chunks, file_exists, file_pos, upload_id, parts,
                 part_number, attempt,
                 fileVars, paramVars, poolVars, result, planVars, jobVars,
                 r2Vars>>

NextUpload ==
  \/ CreateMultipartUpload
  \/ CreateMultipartUploadRaises
  \/ ReadChunk
  \/ UploadPart
  \/ UploadPartRaises
  \/ CompleteMultipartUpload
  \/ AbortMultipartUpload

SpecUpload == InitUpload /\ [][NextUpload]_vars

----------------------------------------------------------------------------
(* Properties of manual_multipart_upload *)

Calls(op) == {i \in 1..Len(s3_calls) : s3_calls[i].op = op}

(* the upload_part requests made for one chunk of the file *)
AttemptsOf(chunk) == {i \in Calls("upload_part") : s3_calls[i].Body = chunk}

(* the requests that failed as the third attempt of their part *)
ThirdFailures ==
  {i \in Calls("upload_part") :
     /\ ~s3_calls[i].ok
     /\ Cardinality({j \in AttemptsOf(s3_calls[i].Body) : j <= i}) = 3}

(* C28: once the upload is initiated each part is attempted at most 3
   times; complete_multipart_upload is called only after upload_part has
   succeeded for every part; and when a part fails on its third attempt no
   later part is uploaded, complete is never called, abort_multipart_upload
   is called for the same upload id and the function returns False *)
C28_RetriesThenAbort ==
  /\ \A chunk \in 1..file_chunks : Cardinality(AttemptsOf(chunk)) <= 3
  /\ \A c \in Calls("complete_multipart_upload") :
       \A chunk \in 1..file_chunks :
         \E i \in AttemptsOf(chunk) : i < c /\ s3_calls[i].ok
  /\ \A f \in ThirdFailures :
       /\ \A i \in (f + 1)..Len(s3_calls) :
            s3_calls[i].op = "abort_multipart_upload"
       /\ Calls("complete_multipart_upload") = {}
       /\ pc \in {"abort", "returned"}
       /\ pc = "returned" =>
            /\ s3_calls[Len(s3_calls)].op = "abort_multipart_upload"
            /\ s3_calls[Len(s3_calls)].UploadId = s3_calls[1].UploadId
            /\ upload_result = Returns(FALSE)

(* the first part went through after a retry, the second failed three
   times, the third was never sent, and the function has returned *)
C28_Witness ==
  /\ pc = "returned" /\ file_chunks = 3
  /\ ThirdFailures # {}
  /\ Cardinality(AttemptsOf(1)) = 2
  /\ Cardinality(AttemptsOf(2)) = 3
  /\ AttemptsOf(3) = {}
  /\ upload_result = Returns(FALSE)

PartNumbersAscending(list) ==
  \A i \in 1..Len(list) : list[i].PartNumber = i

(* C29: at the moment complete_multipart_upload is called the parts list
   holds exactly one entry per chunk read from the file, with PartNumber
   1, 2, ..., N in ascending order and no duplicates, whatever number of
   retries each part needed; a retried part is never recorded twice and
   part_number advances only after a part succeeded *)
C29_PartsListInOrder ==
  /\ \A c \in Calls("complete_multipart_upload") :
       /\ Len(s3_calls[c].Parts) = file_chunks
       /\ PartNumbersAscending(s3_calls[c].Parts)
  /\ pc = "complete" =>
       Len(parts) = file_pos /\ file_pos = file_chunks
  /\ pc \in {"read", "upload_part", "complete", "abort", "returned"} =>
       /\ PartNumbersAscending(parts)
       /\ part_number = Len(parts) + 1
       /\ Len(parts)
            = Cardinality({i \in Calls("upload_part") : s3_calls[i].ok})

(* complete is called for a file of three chunks whose first and third
   parts needed retries *)
C29_Witness ==
  /\ Calls("complete_multipart_upload") # {}
  /\ file_chunks = 3
  /\ Cardinality(AttemptsOf(1)) = 3
  /\ Cardinality(AttemptsOf(2)) = 1
  /\ Cardinality(AttemptsOf(3)) = 2
  /\ upload_result = Returns(TRUE)

----------------------------------------------------------------------------
(* The R2 processor: process_special_folder of SilenceProcessorR2, run by    *)
(* two jobs for different folder codes on one host.  Every processor uses    *)
(* the temp directory /tmp/audio_processing; the jobs interleave between the *)
(* calls process_special_folder makes.  The audio files are WAV files the    *)
(* detector can decode.                                                      *)

Jobs == {"job-1", "job-2"}

(* special_folder_code of a job: one folder per job *)
FolderOf(j) == IF j = "job-1" THEN "folder-1" ELSE "folder-2"

AudioNames == {"a.wav", "b.wav"}

(* what a folder's run.json gives: no run.json, no 'IslenmemisFileName'
   key, or the name of the audio file *)
RunJsonStates == {"missing", "no_key"} \cup AudioNames

TempNames == AudioNames \cup {"meta.json", "silence.json"}

NoFile == [writer |-> "nobody", data |-> "nothing"]

(* a file of the temp directory: the job that wrote it and the job whose
   audio its content comes from *)
TempFile(writer, data) == [writer |-> writer, data |-> data]

InitR2 ==
  /\ NoJob /\ NoUpload /\ NoAudio
  /\ pc = "r2"
  /\ run_data \in [Jobs -> RunJsonStates]
  /\ job_pc = [j \in Jobs |-> "start"]
  /\ temp_dir = [name \in TempNames |-> NoFile]
  /\ bucket = {}
  /\ meta_info = [j \in Jobs |-> "nothing"]
  /\ silence_analysis = [j \in Jobs |-> "nothing"]
  /\ r2_result = [j \in Jobs |-> NoResult]

(* _upload_to_r2: the bucket after the call.  The local file is opened and
   put_object is called; any exception is logged and False is returned *)
UploadToR2(local_name, folder, put_ok) ==
  IF temp_dir'[local_name] = NoFile \/ ~put_ok
  THEN bucket
  ELSE {o \in bucket : o.key # <<folder, local_name>>}
         \cup {[key |-> <<folder, local_name>>,
                data |-> temp_dir'[local_name].data]}

(* _validate_input: head_object on run.json; a failed validation is raised
   as ValueError *)
R2ValidateInput(j) ==
  /\ job_pc[j] = "start"
  /\ job_pc' = [job_pc EXCEPT ![j] = IF run_data[j] = "missing"
                                     THEN "except" ELSE "validated"]
  /\ UNCHANGED <<run_data, temp_dir, bucket, meta_info, silence_analysis,
                 r2_result, uploadVars, fileVars, paramVars, pc, poolVars,
                 result, planVars, jobVars>>

(* _read_json_from_r2 and the check for 'IslenmemisFileName' *)
R2ReadRunJson(j) ==
  /\ job_pc[j] = "validated"
  /\ job_pc' = [job_pc EXCEPT ![j] = IF run_data[j] = "no_key"
                                     THEN "except" ELSE "run_json"]
  /\ UNCHANGED <<run_data, temp_dir, bucket, meta_info, silence_analysis,
                 r2_result, uploadVars, fileVars, paramVars, pc, poolVars,
                 result, planVars, jobVars>>

(* _download_from_r2: the audio file is written to
   temp_dir/islenmemis_filename, or the download fails and an exception is
   raised *)
DownloadFromR2(j) ==
  /\ job_pc[j] = "run_json"
  /\ \E ok \in BOOLEAN :
       IF ok
       THEN /\ temp_dir' = [temp_dir EXCEPT ![run_data[j]] = TempFile(j, j)]
            /\ job_pc' = [job_pc EXCEPT ![j] = "downloaded"]
       ELSE /\ job_pc' = [job_pc EXCEPT ![j] = "except"]
            /\ UNCHANGED temp_dir
  /\ UNCHANGED <<run_data, bucket, meta_info, silence_analysis,
                 r2_result, uploadVars, fileVars, paramVars, pc, poolVars,
                 result, planVars, jobVars>>

(* _extract_and_save_metadata: the audio file at the temp path is read,
   meta.json is written to the temp directory and handed to _upload_to_r2,
   whose return value is not looked at *)
R2ExtractAndSaveMetadata(j) ==
  /\ job_pc[j] = "downloaded"
  /\ IF temp_dir[run_data[j]] = NoFile
     THEN /\ job_pc' = [job_pc EXCEPT ![j] = "except"]
          /\ UNCHANGED <<temp_dir, bucket, meta_info>>
     ELSE /\ meta_info' = [meta_info EXCEPT ![j] = temp_dir[run_data[j]].data]
          /\ temp_dir' = [temp_dir EXCEPT
                            !["meta.json"] = TempFile(j, meta_info'[j])]
          /\ \E put_ok \in BOOLEAN :
               bucket' = UploadToR2("meta.json", FolderOf(j), put_ok)
          /\ job_pc' = [job_pc EXCEPT ![j] = "meta"]
  /\ UNCHANGED <<run_data, silence_analysis,
                 r2_result, uploadVars, fileVars, paramVars, pc, poolVars,
                 result, planVars, jobVars>>

(* detect_silence_segments on the temp path: FileNotFoundError when the
   file is not there *)
R2DetectSilenceSegments(j) ==
  /\ job_pc[j] = "meta"
  /\ IF temp_dir[run_data[j]] = NoFile
     THEN /\ job_pc' = [job_pc EXCEPT ![j] = "except"]
          /\ UNCHANGED silence_analysis
     ELSE /\ silence_analysis' = [silence_analysis EXCEPT
                                    ![j] = temp_dir[run_data[j]].data]
          /\ job_pc' = [job_pc EXCEPT ![j] = "detected"]
  /\ UNCHANGED <<run_data, temp_dir, bucket, meta_info,
                 r2_result, uploadVars, fileVars, paramVars, pc, poolVars,
                 result, planVars, jobVars>>

(* _create_silence_json: silence.json is written to the temp directory and
   handed to _upload_to_r2, whose return value is not looked at *)
R2CreateSilenceJson(j) ==
  /\ job_pc[j] = "detected"
  /\ temp_dir' = [temp_dir EXCEPT
                    !["silence.json"] = TempFile(j, silence_analysis[j])]
  /\ \E put_ok \in BOOLEAN :
       bucket' = UploadToR2("silence.json", FolderOf(j), put_ok)
  /\ job_pc' = [job_pc EXCEPT ![j] = "silence_json"]
  /\ UNCHANGED <<run_data, meta_info, silence_analysis,
                 r2_result, uploadVars, fileVars, paramVars, pc, poolVars,
                 result, planVars, jobVars>>

(* _cleanup_temp_files: shutil.rmtree(temp_dir), then makedirs *)
CleanupTempFiles == [name \in TempNames |-> NoFile]

(* steps 8 and 9: the temp directory is cleaned and the success result is
   returned *)
R2Return(j) ==
  /\ job_pc[j] = "silence_json"
  /\ temp_dir' = CleanupTempFiles
  /\ r2_result' = [r2_result EXCEPT
                     ![j] = [returned |-> TRUE,
                             success |-> TRUE,
                             special_folder_code |-> FolderOf(j),
                             filename |-> run_data[j],
                             meta_info |-> meta_info[j],
                             silence_analysis |-> silence_analysis[j],
                             silence_json_created |-> TRUE]]
  /\ job_pc' = [job_pc EXCEPT ![j] = "returned"]
  /\ UNCHANGED <<run_data, bucket, meta_info, silence_analysis,
                 uploadVars, fileVars, paramVars, pc, poolVars,
                 result, planVars, jobVars>>

(* the except branch: the temp directory is cleaned and the failure result
   is returned *)
R2Except(j) ==
  /\ job_pc[j] = "except"
  /\ temp_dir' = CleanupTempFiles
  /\ r2_result' = [r2_result EXCEPT
                     ![j] = [returned |-> TRUE,
                             success |-> FALSE,
                             special_folder_code |-> FolderOf(j)]]
  /\ job_pc' = [job_pc EXCEPT ![j] = "returned"]
  /\ UNCHANGED <<run_data, bucket, meta_info, silence_analysis,
                 uploadVars, fileVars, paramVars, pc, poolVars,
                 result, planVars, jobVars>>

NextR2 ==
  \/ \E j \in Jobs : R2ValidateInput(j)
  \/ \E j \in Jobs : R2ReadRunJson(j)
  \/ \E j \in Jobs : DownloadFromR2(j)
  \/ \E j \in Jobs : R2ExtractAndSaveMetadata(j)
  \/ \E j \in Jobs : R2DetectSilenceSegments(j)
  \/ \E j \in Jobs : R2CreateSilenceJson(j)
  \/ \E j \in Jobs : R2Return(j)
  \/ \E j \in Jobs : R2Except(j)

SpecR2 == InitR2 /\ [][NextR2]_vars

----------------------------------------------------------------------------
(* Properties of the R2 processor *)

Stored(folder, name) == \E o \in bucket : o.key = <<folder, name>>

(* C27: whenever process_special_folder returns success = True with
   silence_json_created = True, meta.json and silence.json have been stored
   in the bucket: a failed upload of either gives a failure result *)
C27_SuccessMeansStored ==
  \A j \in Jobs :
    (r2_result[j].returned /\ r2_result[j].success
       /\ r2_result[j].silence_json_created) =>
      /\ Stored(FolderOf(j), "meta.json")
      /\ Stored(FolderOf(j), "silence.json")

(* the job is between downloading its audio file and finishing detection *)
Analysing(j) == job_pc[j] \in {"downloaded", "meta"}

(* C30: two R2 jobs for different folder codes do not interfere: while a
   job is between downloading its audio file and finishing detection, its
   files in the temp directory, the audio file and the meta.json it wrote,
   are neither removed nor overwritten by the other job *)
C30_JobsDoNotInterfere ==
  \A j \in Jobs :
    Analysing(j) =>
      /\ temp_dir[run_data[j]] = TempFile(j, j)
      /\ job_pc[j] = "meta" => temp_dir["meta.json"] = TempFile(j, j)

====
